---- MODULE Spec2Model ----
(***************************************************************************)
(* Per-call lifecycle of the Asterisk <-> OpenAI realtime bridge.          *)
(*                                                                         *)
(* The orchestrator (asterisk.js) and the realtime session (openai.js) run *)
(* on one JavaScript event loop.  Every handler runs to its next `await`   *)
(* without interruption, so one action of this model is one such run: the  *)
(* arrival of an event or of the answer to a pending request, followed by  *)
(* all the synchronous code up to the next suspension.                     *)
(*                                                                         *)
(* A Call record is a mutable JavaScript object.  Closures keep references *)
(* to the object they read from the registry, and the registry entry of a  *)
(* call-id can be replaced by another object, so records are modelled as   *)
(* objects with identity: per call-id there are at most four of them       *)
(* ("pre": made by `sipMap.get(id) || {}` before call setup wrote its      *)
(* record, "main": the literal written by call setup, "late": made by      *)
(* `sipMap.get(id) || {}` in call setup after the entry was deleted), and   *)
(* "again": the literal written by a call setup that runs a second time.   *)
(***************************************************************************)
EXTENDS Integers, FiniteSets, Sequences, TLC

----------------------------------------------------------------------------
(* Bounds of the model *)

\* number of RTP ports in the pool (stands for MAX_CONCURRENT_CALLS)
MaxPorts == 2
\* events from outside that a run delivers: leg-end events (StasisEnd,
\* ChannelDestroyed), BridgeDestroyed, failing requests of call setup,
\* assistant transcripts matching a phrase, a WebSocket closed by the
\* server, a call reaching the duration limit, SIGINT.  Answers to the
\* program's own requests, audio and the other timers are not counted.
MaxEvents == 2
\* invocations of cleanupChannel counted per call (the counter saturates)
MaxCount == 2

\* bytes of audio in one response.audio.delta: 1 .. MaxDelta
MaxDelta == 2
\* bytes of audio a session receives in a run
MaxBytes == 4
\* events the message pump of a session receives in a run
MaxMsgs == 6
\* calls of push a sender receives in a run
MaxPushes == 3

(* Program constants *)
RTP_PORT_START == 12000
maxRetries == 3
maxMessages == 5
maxAttempts == 10

Ids   == {"c1", "c2"}
Slots == {"pre", "main", "late", "again"}
NoSlot == "none"
NoPort == 0
NoId == "nobody"
Ports == RTP_PORT_START .. (RTP_PORT_START + MaxPorts - 1)

\* stages of the cleanup body: the request it is suspended in
StNone == 0
StWs == 1
StExt == 2
StBridge == 3
StSip == 4
StMail == 5
StDone == 6

VARIABLES
  kind,             \* per channel id: "sip", "local" (Local/ pseudo-leg), "unknown", "off"
  cfg,              \* configuration bundle (constant during a run)
  failing,          \* the teardown step of cleanupChannel that throws in this run, or "none"
  snd,              \* the RTP sender of one call in detail: buffer, queue, header counters
  extStart,         \* the StasisStart handler of the external-media leg, per call-id
  sipMap,           \* registry: call-id -> the object it maps to, or NoSlot
  obj,              \* the Call record objects, by call-id and identity
  extMapExt,        \* call-ids c with an entry  externalId(c) => {bridgeId, channelId}
  extMapSip,        \* call-ids c with an entry  c => {bridgeId, externalChannelId}
  ignoreExtEvents,  \* call-ids c whose external leg id is in ignoreExtEvents
  cleanedChannels,  \* already-cleaned set
  cleanupPromises,  \* call-ids with an entry in the cleanup-in-flight map
  rtpReceivers,     \* call-ids with an open receiver socket in the receiver map
  rtpSenders,       \* call-ids with an open sender socket in the sender map
  usedPorts,        \* RTP ports the pool has handed out and not got back
  setupPc,          \* position of the StasisStart handler of the SIP leg
  setupPort,        \* its local `port`
  cleanPc,          \* stage the cleanup body is suspended in
  cleanRef,         \* its `channelData`
  redirPc,          \* position of redirectToQueue
  redirRef,         \* its `data`
  redirIdx,         \* index in tryContexts of the pending continueInDialplan
  termPc,           \* position of terminateAfterPlayback
  aiRef,            \* `channelData` of the realtime session
  wsState,          \* the WebSocket of the session
  senderQ,          \* the sender's queues: "none","idle","busy","drained","ended"
  gracePending,     \* pending grace timers, by the object holding the handle
  callTimerPending, \* pending call-duration timer
  bridgeAlive,      \* the call's bridge: "no", "up", "down" (destroy requested)
  extAlive,         \* the external-media leg: "no", "up", "down" (hangup requested)
  eff,              \* history: requests issued, per call-id
  budget,           \* events from outside delivered so far
  sigint,           \* position of the SIGINT handler; the calls registered (reg) and the
                    \* cleanups in flight (flying) at the signal, the cleanups it waits for
  ai,               \* per call-id: the local variables of its realtime session
  aiEff             \* history of the session: hooks called, audio pushed

vars == << kind, cfg, failing, snd, extStart, sipMap, obj, extMapExt, extMapSip, ignoreExtEvents,
           cleanedChannels, cleanupPromises, rtpReceivers,
           rtpSenders, usedPorts, setupPc, setupPort, cleanPc, cleanRef,
           redirPc, redirRef, redirIdx, termPc, aiRef, wsState, senderQ,
           gracePending, callTimerPending, bridgeAlive, extAlive, eff, budget,
           sigint, ai, aiEff >>

----------------------------------------------------------------------------
(* Records *)

EmptyObj ==
  [ sipEnded |-> FALSE, extEnded |-> FALSE, timer |-> FALSE, cleaned |-> FALSE,
    redirecting |-> FALSE, tap |-> FALSE, bridge |-> FALSE, channel |-> FALSE,
    rtpPort |-> NoPort, ext |-> FALSE, callTimer |-> FALSE, ws |-> FALSE,
    wsClosed |-> FALSE, sh |-> FALSE ]

\* the object literal call setup writes into the registry
MainObj(port) ==
  [ EmptyObj EXCEPT !.bridge = TRUE, !.channel = TRUE, !.rtpPort = port ]

NoEff ==
  [ invoked |-> 0, bodies |-> 0, extHangup |-> 0, bridgeDestroy |-> 0,
    sipHangup |-> 0, release |-> 0, mail |-> 0,
    earlyReturn |-> FALSE, joined |-> FALSE, dropped |-> FALSE,
    rExtHangup |-> 0, rBridgeDestroy |-> 0, rRelease |-> 0, rSipHangup |-> 0,
    rContinue |-> 0, rContinued |-> FALSE, tSipHangup |-> 0,
    rCalls |-> 0, rRuns |-> 0, dupStart |-> FALSE, stepFailed |-> FALSE,
    rLate |-> FALSE, reason |-> "none", mailReason |-> "none" ]

Bump(n) == IF n < MaxCount THEN n + 1 ELSE n

\* no packet
NoPacket == [ pt |-> 0, len |-> 0, seq |-> 0, ts |-> [ hi |-> 0, lo |-> 0 ], serial |-> 0 ]

\* a sender as it is created: nothing buffered, nothing queued, header
\* counters at seq0 and ts0; serial numbers the packets as they are formed,
\* pushes counts the calls of push,
\* last is the packet emitted last, fin counts audioFinished, filled tells
\* whether audio was pushed since the last audioFinished, idle counts the
\* ticks that found nothing to do
NewSender(seq0, ts0) ==
  [ on |-> TRUE, buf |-> 0, queue |-> << >>, seq |-> seq0, ts |-> ts0,
    serial |-> 0, pushes |-> 0, dirty |-> FALSE, last |-> NoPacket, fin |-> 0,
    filled |-> FALSE, idle |-> 0 ]

\* the specifications of the orchestrator and of the session keep the
\* sender as the summary senderQ
NoSender == [ NewSender(0, [ hi |-> 0, lo |-> 0 ]) EXCEPT !.on = FALSE ]

\* the StasisStart handler of the external-media leg before the leg enters:
\* its position, its `attempts`, the addExtToBridge calls it has made, and
\* how it ended (leg added, add failed, no mapping found)
NoExtStart ==
  [ pc |-> "none", attempts |-> 0, adds |-> 0, bridged |-> FALSE,
    failed |-> FALSE, gaveUp |-> FALSE ]

\* the local variables of startOpenAIWebSocket as it declares them
NewSession ==
  [ retryCount |-> 0, retryTimer |-> FALSE, openPc |-> "idle",
    totalDeltaBytes |-> 0,
    terminateRequested |-> FALSE, terminationInFlight |-> FALSE,
    terminationWatchdogStarted |-> FALSE, watchdogTimer |-> FALSE,
    finalPc |-> "idle",
    \* the message pump: the queue of parsed events, the number received,
    \* the events whose handling was started, in this order; the pump run
    \* that is suspended in the finalizer (the event it waits in, the
    \* iterations it has left, the events it has started), and the number of
    \* events the run that ended last has started
    messageQueue |-> << >>, recv |-> 0, started |-> << >>,
    pumpSusp |-> FALSE, pumpAt |-> 0, pumpLeft |-> 0, pumpCount |-> 0,
    lastRun |-> 0,
    \* waitForBufferEmpty: its listener for audioFinished is registered with
    \* the emitter; how the wait ended: "none" (it has not), "nosender",
    \* "finished", "timeout"
    afOnce |-> FALSE, waitEnd |-> "none" ]

NoAiEff ==
  [ redirHooks |-> 0, termHooks |-> 0,
    respDeltas |-> 0, pushed |-> "none", transcript |-> {} ]

\* sipMap.get(id) || {}: the object read, a fresh one when the id is absent
GetOrNew(sm, c) == IF sm[c] = NoSlot THEN "pre" ELSE sm[c]

----------------------------------------------------------------------------
(* RTP port pool *)

FreePorts(used) == Ports \ used
PoolExhausted(used) == FreePorts(used) = {}
\* acquire: lowest free port
getNextRtpPort(used) == CHOOSE p \in FreePorts(used) : \A q \in FreePorts(used) : p <= q
\* release: back to the free set; an unknown port is a silent no-op
releaseRtpPort(used, p) == used \ {p}

----------------------------------------------------------------------------
(* cleanupChannel *)

\* a cleanupChannel without the hard guard
HardGuardMissing(c) == FALSE

\* hard guard: the call-id is in the already-cleaned set
HardGuard(c) == c \in cleanedChannels

\* second guard: a cleanup of the call-id is in the cleanup-in-flight map
InFlightGuard(c) == c \in cleanupPromises

\* the invocation gets past both guards and runs the body
Starts(S, c) == c \in S /\ ~HardGuard(c) /\ ~InFlightGuard(c)

\* the invocation awaits the stored promise
Joins(S, c) == c \in S /\ ~HardGuard(c) /\ InFlightGuard(c)

\* `channelData` of the body that runs in this step
BodyRef(sm, S, c) == IF Starts(S, c) THEN GetOrNew(sm, c) ELSE cleanRef[c]

\* the body goes past the per-call flag (soft guard)
Runs(sm, ob, S, r, c) ==
  \/ Starts(S, c) /\ ~ob[c][GetOrNew(sm, c)].cleaned
  \/ c = r /\ c \notin S

\* a cleanup that hangs the SIP leg up whenever it has one
SipHangupGateChannelOnly(d) == d.channel

\* the SIP leg is hung up unless the call was handed to the queue
SipHangupGate(d) == ~d.redirecting /\ d.channel

\* the mailer runs on a natural end only
MailGate(fresh) == cfg.email /\ ~fresh.redirecting

\* a mail step that passes no reason: sendTranscriptEmail takes its default
MailReasonDefault(reason) == ""

\* the `reason` the mail step passes to sendTranscriptEmail: the parameter
\* of the invocation whose body this is
MailReason(reason) == reason

\* the steps of the cleanup body that can throw or whose request can fail:
\* sender end, WebSocket close, external-leg hangup, bridge destroy, SIP
\* hangup, receiver close, sender socket close, port release, mailer
TeardownSteps == { "sh", "ws", "ext", "bridge", "sip", "rx", "tx", "release", "mail" }

\* a cleanup body whose steps have no try/catch of their own
StepUnguarded(step) == FALSE

\* the step is wrapped in a try/catch of its own
StepGuarded(step) == step \in TeardownSteps

\* does the body suspend in stage j, given its record d and the record
\* `fresh` the registry holds when the mail step is reached
StageCond(j, d, fresh) ==
  CASE j = StWs     -> d.ws /\ ~d.wsClosed
    [] j = StExt    -> d.ext
    [] j = StBridge -> d.bridge
    [] j = StSip    -> SipHangupGate(d)
    [] j = StMail   -> MailGate(fresh)
    [] OTHER        -> TRUE

\* the stage the body reaches when it continues after stage k
Target(k, d, fresh) ==
  LET js == { j \in (k + 1) .. StDone : StageCond(j, d, fresh) }
  IN  CHOOSE j \in js : \A i \in js : j <= i

\* One step of the event loop as far as cleanupChannel is concerned:
\* cleanupChannel is invoked for every id in S (registry sm, objects ob and
\* grace timers gp, map em and sender queues sq being what the caller left,
\* `why` the reason passed), or the body of r continues
\* after the request it was suspended in.  The body runs to its next await.
CleanupStep(sm, ob, gp, em, sq, S, r, why) ==
  LET ref(c)  == BodyRef(sm, S, c)
      runs(c) == Runs(sm, ob, S, r, c)
      strt(c) == Starts(S, c) /\ runs(c)
      d(c)    == ob[c][ref(c)]
      smIn(c) == IF strt(c) THEN ref(c) ELSE sm[c]
      fresh(c) == IF smIn(c) = NoSlot THEN d(c) ELSE ob[c][smIn(c)]
      from(c) == IF Starts(S, c) THEN StNone ELSE cleanPc[c]
      next(c) == Target(from(c), d(c), fresh(c))
      \* the synchronous block between the SIP hangup and the mail step is
      \* reached in this step
      block(c) == runs(c) /\ from(c) < StMail /\ next(c) >= StMail
      \* the step that throws is executed, or the request that fails returns
      failsAt(c) ==
        \/ failing = "sh" /\ strt(c) /\ d(c).sh
        \/ failing = "ws" /\ strt(c) /\ d(c).ws /\ ~d(c).wsClosed
        \/ failing = "ext" /\ runs(c) /\ from(c) = StExt
        \/ failing = "bridge" /\ runs(c) /\ from(c) = StBridge
        \/ failing = "sip" /\ runs(c) /\ from(c) = StSip
        \/ failing = "mail" /\ runs(c) /\ from(c) = StMail
        \/ failing = "rx" /\ block(c) /\ c \in rtpReceivers
        \/ failing = "tx" /\ block(c) /\ c \in rtpSenders
        \/ failing = "release" /\ block(c) /\ d(c).rtpPort # NoPort
      \* the error is not caught at the step: the body ends in its outer catch
      aborts(c) == failsAt(c) /\ ~StepGuarded(failing)
      to(c)   == IF ~runs(c) THEN cleanPc[c]
                 ELSE IF aborts(c) THEN StDone ELSE next(c)
      enters(c, j) == runs(c) /\ to(c) = j
      \* the parts of the synchronous block that are carried out
      closesRx(c) == block(c) /\ ~(failsAt(c) /\ failing = "rx")
                              /\ ~(aborts(c) /\ failing \notin {"tx", "release"})
      closesTx(c) == block(c) /\ ~(failsAt(c) /\ failing = "tx")
                              /\ ~(aborts(c) /\ failing # "release")
      releases(c) == block(c) /\ d(c).rtpPort # NoPort /\ failing # "release"
                              /\ ~aborts(c)
      tries(c)    == block(c) /\ d(c).rtpPort # NoPort
                              /\ ~(aborts(c) /\ failing # "release")
      purges(c)   == block(c) /\ ~aborts(c)
      deletes(c)  == enters(c, StDone) /\ ~aborts(c)
  IN
  /\ obj' = [ c \in Ids |-> [ k \in Slots |->
               IF strt(c) /\ k = ref(c)
               THEN [ ob[c][k] EXCEPT !.cleaned = TRUE, !.timer = FALSE ]
               ELSE ob[c][k] ] ]
  /\ sipMap' = [ c \in Ids |-> IF deletes(c) THEN NoSlot ELSE smIn(c) ]
  /\ cleanedChannels' = cleanedChannels \cup { c \in Ids : Starts(S, c) }
  /\ cleanupPromises' =
       (cleanupPromises \ { c \in Ids : c = r /\ enters(c, StDone) })
         \cup { c \in Ids : Starts(S, c) }
  /\ cleanPc' = [ c \in Ids |-> to(c) ]
  /\ cleanRef' = [ c \in Ids |-> IF strt(c) THEN ref(c) ELSE cleanRef[c] ]
  /\ gracePending' = [ c \in Ids |->
       IF strt(c) /\ d(c).timer THEN gp[c] \ {ref(c)} ELSE gp[c] ]
  /\ ignoreExtEvents' = ignoreExtEvents \cup { c \in Ids : strt(c) /\ d(c).ext }
  /\ callTimerPending' = [ c \in Ids |->
       IF strt(c) /\ d(c).callTimer THEN FALSE ELSE callTimerPending[c] ]
  /\ senderQ' = [ c \in Ids |->
       IF strt(c) /\ d(c).sh /\ failing # "sh" THEN "ended" ELSE sq[c] ]
  /\ wsState' = [ c \in Ids |->
       IF /\ strt(c) /\ d(c).ws /\ ~d(c).wsClosed /\ wsState[c] = "open"
          /\ failing # "ws" /\ ~(aborts(c) /\ failing = "sh")
       THEN "closing" ELSE wsState[c] ]
  /\ rtpReceivers' = rtpReceivers \ { c \in Ids : closesRx(c) }
  /\ rtpSenders' = rtpSenders \ { c \in Ids : closesTx(c) }
  /\ usedPorts' = usedPorts \ { d(c).rtpPort : c \in { x \in Ids : releases(x) } }
  /\ extMapExt' = em \ { c \in Ids : purges(c) /\ d(c).ext }
  /\ extMapSip' = extMapSip \ { c \in Ids : purges(c) }
  /\ extAlive' = [ c \in Ids |->
       IF enters(c, StExt) /\ extAlive[c] = "up" /\ failing # "ext"
       THEN "down" ELSE extAlive[c] ]
  /\ bridgeAlive' = [ c \in Ids |->
       IF enters(c, StBridge) /\ bridgeAlive[c] = "up" /\ failing # "bridge"
       THEN "down" ELSE bridgeAlive[c] ]
  /\ eff' = [ c \in Ids |->
       [ eff[c] EXCEPT
           !.invoked = IF c \in S THEN Bump(@) ELSE @,
           !.bodies = IF strt(c) THEN Bump(@) ELSE @,
           !.reason = IF Starts(S, c) THEN why ELSE @,
           !.mailReason = IF enters(c, StMail)
                          THEN MailReason(IF Starts(S, c) THEN why ELSE eff[c].reason)
                          ELSE @,
           !.earlyReturn = @ \/ (c \in S /\ HardGuard(c) /\ cleanPc[c] \in StWs .. StMail),
           !.joined = @ \/ Joins(S, c),
           !.stepFailed = @ \/ failsAt(c),
           !.extHangup = IF enters(c, StExt) THEN Bump(@) ELSE @,
           !.bridgeDestroy = IF enters(c, StBridge) THEN Bump(@) ELSE @,
           !.sipHangup = IF enters(c, StSip) THEN Bump(@) ELSE @,
           !.release = IF tries(c) THEN Bump(@) ELSE @,
           !.mail = IF enters(c, StMail) THEN Bump(@) ELSE @ ] ]

\* the variables CleanupStep does not write
CleanupFrame0 ==
  UNCHANGED << kind, cfg, failing, snd, extStart, ai, aiEff, setupPort, redirPc, redirRef, redirIdx, aiRef >>

CleanupFrame == CleanupFrame0 /\ UNCHANGED sigint

\* the answer to the request the cleanup body is suspended in arrives
CleanupResume(c) ==
  /\ cleanPc[c] \in StWs .. StMail
  /\ CleanupStep(sipMap, obj, gracePending, extMapExt, senderQ, {}, c, "none")
  /\ CleanupFrame
  /\ UNCHANGED << setupPc, termPc, budget >>

----------------------------------------------------------------------------
(* Leg-end events: StasisEnd, ChannelDestroyed *)

\* resolveSipIdForChannel: the owner of a channel, NoId when there is none.
\* A channel that is not an external-media leg is its own owner.
resolveSipIdForChannel(c, leg) ==
  IF leg = "sip" THEN c
  ELSE IF c \in extMapExt THEN c
  ELSE IF sipMap[c] # NoSlot /\ obj[c][sipMap[c]].ext THEN c
  ELSE NoId

\* markChannelEndedAndMaybeCleanup returns before it changes anything
MarkDrops(c, leg) ==
  \/ leg = "ext" /\ c \in ignoreExtEvents
  \/ resolveSipIdForChannel(c, leg) = NoId
  \/ c \in cleanedChannels
  \/ obj[c][GetOrNew(sipMap, c)].cleaned

\* handlers that never drop an event themselves
HandlerDropsNothing(c, leg) == FALSE

\* the StasisEnd / ChannelDestroyed handler returns before it calls
\* markChannelEndedAndMaybeCleanup
HandlerDrops(c, leg) ==
  \/ leg = "ext" /\ c \in ignoreExtEvents
  \/ resolveSipIdForChannel(c, leg) # NoId /\ c \in cleanedChannels

\* the PBX can deliver a leg-end event for this channel
LegEndPossible(c, leg) ==
  IF leg = "sip"
  THEN /\ kind[c] \in {"sip", "local", "unknown"}
       /\ kind[c] = "sip" => setupPc[c] # "idle"
  ELSE \/ kind[c] = "sip" /\ extAlive[c] # "no"
       \/ kind[c] = "unknown"

\* one more event from outside is delivered
Spend == budget < MaxEvents /\ budget' = budget + 1

\* the leg-end handlers drop the event of a leg of c: only the history
\* records it
LegEndNoChange(c) ==
  /\ eff' = [ eff EXCEPT ![c].dropped = TRUE ]
  /\ UNCHANGED << kind, cfg, failing, snd, extStart, ai, aiEff, sipMap, obj, extMapSip, ignoreExtEvents,
                  cleanedChannels, cleanupPromises, rtpReceivers, rtpSenders,
                  usedPorts, setupPc, setupPort, cleanPc, cleanRef, redirPc,
                  redirRef, redirIdx, termPc, aiRef, wsState, senderQ,
                  gracePending, callTimerPending, bridgeAlive, extAlive, sigint >>

\* markChannelEndedAndMaybeCleanup; em is the external-to-call map the
\* handler leaves behind
markChannelEndedAndMaybeCleanup(c, leg, em) ==
  LET k    == GetOrNew(sipMap, c)
      d1   == IF leg = "ext" THEN [ obj[c][k] EXCEPT !.extEnded = TRUE ]
                             ELSE [ obj[c][k] EXCEPT !.sipEnded = TRUE ]
      sm1  == [ sipMap EXCEPT ![c] = k ]
  IN
  IF MarkDrops(c, leg)
  THEN extMapExt' = em /\ LegEndNoChange(c)
  ELSE IF d1.sipEnded /\ d1.extEnded
  THEN \* both legs ended: clean immediately
       /\ CleanupStep(sm1, [ obj EXCEPT ![c][k] = d1 ], gracePending, em, senderQ, {c}, NoId, "both-ended")
       /\ CleanupFrame
       /\ UNCHANGED << setupPc, termPc >>
  ELSE \* start or refresh the grace timer
       /\ obj' = [ obj EXCEPT ![c][k] = [ d1 EXCEPT !.timer = TRUE ] ]
       /\ sipMap' = sm1
       /\ gracePending' = [ gracePending EXCEPT ![c] = @ \cup {k} ]
       /\ extMapExt' = em
       /\ UNCHANGED << kind, cfg, failing, snd, extStart, ai, aiEff, extMapSip, ignoreExtEvents,
                       cleanedChannels, cleanupPromises, rtpReceivers, rtpSenders,
                       usedPorts, setupPc, setupPort, cleanPc, cleanRef, redirPc,
                       redirRef, redirIdx, termPc, aiRef, wsState, senderQ,
                       callTimerPending, bridgeAlive, extAlive, eff, sigint >>

\* StasisEnd handler
StasisEnd(c, leg) ==
  /\ LegEndPossible(c, leg)
  /\ Spend
  /\ IF HandlerDrops(c, leg)
     THEN UNCHANGED extMapExt /\ LegEndNoChange(c)
     ELSE markChannelEndedAndMaybeCleanup(c, leg,
            IF leg = "ext" THEN extMapExt \ {c} ELSE extMapExt)

\* ChannelDestroyed handler
ChannelDestroyed(c, leg) ==
  /\ LegEndPossible(c, leg)
  /\ Spend
  /\ IF HandlerDrops(c, leg)
     THEN UNCHANGED extMapExt /\ LegEndNoChange(c)
     ELSE markChannelEndedAndMaybeCleanup(c, leg, extMapExt)

\* a grace timer expires
GraceTimeout(c, k) ==
  /\ k \in gracePending[c]
  /\ CleanupStep(sipMap, obj, [ gracePending EXCEPT ![c] = @ \ {k} ], extMapExt,
                 senderQ, {c}, NoId, "grace-timeout")
  /\ CleanupFrame
  /\ UNCHANGED << setupPc, termPc, budget >>

----------------------------------------------------------------------------
(* StasisStart handler of a SIP leg: call setup *)

\* what a step of call setup leaves alone unless it says otherwise
SetupFrame ==
  UNCHANGED << kind, cfg, failing, snd, extStart, ai, aiEff, extMapSip, ignoreExtEvents,
               cleanedChannels, cleanupPromises, cleanPc, cleanRef, redirPc,
               redirRef, redirIdx, termPc, gracePending, eff, budget, sigint >>

\* the catch block: cleanupChannel(channel.id, 'stasisstart-error')
SetupCatch(c) ==
  /\ setupPc' = [ setupPc EXCEPT ![c] = "failed" ]
  /\ CleanupStep(sipMap, obj, gracePending, extMapExt, senderQ, {c}, NoId, "stasisstart-error")
  /\ CleanupFrame
  /\ UNCHANGED termPc

\* StasisStart arrives; Local/ helper legs are ignored, for a SIP leg the
\* bridge is requested
StasisStart(c) ==
  /\ setupPc[c] = "idle"
  /\ kind[c] \in {"sip", "local"}
  /\ setupPc' = [ setupPc EXCEPT ![c] = IF kind[c] = "local" THEN "skipped" ELSE "create" ]
  /\ UNCHANGED << sipMap, obj, extMapExt, rtpReceivers, rtpSenders, usedPorts,
                  setupPort, aiRef, wsState, senderQ, callTimerPending,
                  bridgeAlive, extAlive >>
  /\ SetupFrame

\* the PBX delivers StasisStart a second time for the SIP leg of a live,
\* accepted call: the handler runs again from its start
StasisStartAgain(c) ==
  /\ kind[c] = "sip"
  /\ setupPc[c] = "done"
  /\ ~eff[c].dupStart
  /\ sipMap[c] # NoSlot /\ c \notin cleanedChannels
  /\ Spend
  /\ setupPc' = [ setupPc EXCEPT ![c] = "create" ]
  /\ eff' = [ eff EXCEPT ![c].dupStart = TRUE ]
  /\ UNCHANGED << kind, cfg, failing, snd, extStart, ai, aiEff, sipMap, obj, extMapExt, extMapSip,
                  ignoreExtEvents, cleanedChannels, cleanupPromises, rtpReceivers,
                  rtpSenders, usedPorts, setupPort, cleanPc, cleanRef, redirPc,
                  redirRef, redirIdx, termPc, aiRef, wsState, senderQ,
                  gracePending, callTimerPending, bridgeAlive, extAlive, sigint >>

\* bridges.create returned: add the SIP leg
SetupBridgeCreated(c) ==
  /\ setupPc[c] = "create"
  /\ setupPc' = [ setupPc EXCEPT ![c] = "add" ]
  /\ bridgeAlive' = [ bridgeAlive EXCEPT ![c] = "up" ]
  /\ UNCHANGED << sipMap, obj, extMapExt, rtpReceivers, rtpSenders, usedPorts,
                  setupPort, aiRef, wsState, senderQ, callTimerPending, extAlive >>
  /\ SetupFrame

\* bridge.addChannel returned: answer
SetupLegAdded(c) ==
  /\ setupPc[c] = "add"
  /\ setupPc' = [ setupPc EXCEPT ![c] = "answer" ]
  /\ UNCHANGED << sipMap, obj, extMapExt, rtpReceivers, rtpSenders, usedPorts,
                  setupPort, aiRef, wsState, senderQ, callTimerPending,
                  bridgeAlive, extAlive >>
  /\ SetupFrame

\* channel.answer returned: acquire a port and start the receiver;
\* an exhausted pool throws
SetupAnswered(c) ==
  /\ setupPc[c] = "answer"
  /\ IF PoolExhausted(usedPorts)
     THEN SetupCatch(c) /\ UNCHANGED budget
     ELSE /\ setupPc' = [ setupPc EXCEPT ![c] = "rx" ]
          /\ setupPort' = [ setupPort EXCEPT ![c] = getNextRtpPort(usedPorts) ]
          /\ usedPorts' = usedPorts \cup { getNextRtpPort(usedPorts) }
          /\ UNCHANGED << sipMap, obj, extMapExt, rtpReceivers, rtpSenders, aiRef,
                          wsState, senderQ, callTimerPending, bridgeAlive, extAlive >>
          /\ SetupFrame

\* the object literal of this run of call setup
SetupLiteral(c) == IF eff[c].dupStart THEN "again" ELSE "main"

\* startRTPReceiver returned: write the Call record, request the
\* external-media leg
SetupReceiverStarted(c) ==
  /\ setupPc[c] = "rx"
  /\ setupPc' = [ setupPc EXCEPT ![c] = "extmedia" ]
  /\ rtpReceivers' = rtpReceivers \cup {c}
  /\ obj' = [ obj EXCEPT ![c][SetupLiteral(c)] = MainObj(setupPort[c]) ]
  /\ sipMap' = [ sipMap EXCEPT ![c] = SetupLiteral(c) ]
  /\ UNCHANGED << extMapExt, rtpSenders, usedPorts, setupPort, aiRef, wsState,
                  senderQ, callTimerPending, bridgeAlive, extAlive >>
  /\ SetupFrame

\* the object `sipMap.get(channel.id) || {}` of call setup yields
SetupRecord(c) == IF sipMap[c] = NoSlot THEN "late" ELSE sipMap[c]

\* channels.externalMedia returned: record the external leg in both maps and
\* in the Call record, arm the duration timer, start the realtime session
SetupExternalMedia(c) ==
  LET k == SetupRecord(c) IN
  /\ setupPc[c] = "extmedia"
  /\ setupPc' = [ setupPc EXCEPT ![c] = "wsconnect" ]
  /\ extAlive' = [ extAlive EXCEPT ![c] = "up" ]
  /\ extMapExt' = extMapExt \cup {c}
  /\ extMapSip' = extMapSip \cup {c}
  /\ obj' = [ obj EXCEPT ![c][k].ext = TRUE,
                         ![c][k].callTimer = IF cfg.durLimit THEN TRUE ELSE @ ]
  /\ sipMap' = [ sipMap EXCEPT ![c] = k ]
  /\ callTimerPending' = [ callTimerPending EXCEPT ![c] = cfg.durLimit ]
  /\ aiRef' = [ aiRef EXCEPT ![c] = k ]
  /\ wsState' = [ wsState EXCEPT ![c] = "connecting" ]
  /\ UNCHANGED << kind, cfg, failing, snd, extStart, ai, aiEff, ignoreExtEvents, cleanedChannels,
                  cleanupPromises, rtpReceivers, rtpSenders, usedPorts, setupPort,
                  cleanPc, cleanRef, redirPc, redirRef, redirIdx, termPc, senderQ,
                  gracePending, bridgeAlive, eff, budget, sigint >>

\* the WebSocket opens: session.update is sent and the sender is requested
WsOpen(c) ==
  /\ setupPc[c] = "wsconnect"
  /\ wsState[c] = "connecting"
  /\ setupPc' = [ setupPc EXCEPT ![c] = "stream" ]
  /\ wsState' = [ wsState EXCEPT ![c] = "open" ]
  /\ UNCHANGED << sipMap, obj, extMapExt, rtpReceivers, rtpSenders, usedPorts,
                  setupPort, aiRef, senderQ, callTimerPending, bridgeAlive, extAlive >>
  /\ SetupFrame

\* streamAudio returned: the session stores its socket and sender in its
\* record, writes the record into the registry and resolves
SessionReady(c) ==
  LET k == aiRef[c] IN
  /\ setupPc[c] = "stream"
  /\ setupPc' = [ setupPc EXCEPT ![c] = "done" ]
  /\ rtpSenders' = rtpSenders \cup {c}
  /\ senderQ' = [ senderQ EXCEPT ![c] = "idle" ]
  /\ obj' = [ obj EXCEPT ![c][k].ws = TRUE, ![c][k].sh = TRUE ]
  /\ sipMap' = [ sipMap EXCEPT ![c] = k ]
  /\ UNCHANGED << extMapExt, rtpReceivers, usedPorts, setupPort, aiRef, wsState,
                  callTimerPending, bridgeAlive, extAlive >>
  /\ SetupFrame

\* a request of call setup fails (a PBX request, the receiver, the
\* WebSocket, the sender): the catch block runs
SetupError(c) ==
  /\ setupPc[c] \in {"create", "add", "answer", "rx", "extmedia", "wsconnect", "stream"}
  /\ setupPc[c] = "wsconnect" => wsState[c] = "connecting"
  /\ Spend
  /\ SetupCatch(c)

----------------------------------------------------------------------------
(* Realtime session: the events the orchestrator sees *)

\* the session has asked for the first response, so the message pump can
\* hold audio and transcripts of the server; it keeps running when the
\* WebSocket has closed
SessionStarted(c) == setupPc[c] = "done" /\ wsState[c] \in {"open", "closing", "closed"}

SessionFrame ==
  UNCHANGED << kind, cfg, failing, snd, extStart, ai, aiEff, extMapExt, extMapSip, ignoreExtEvents,
               cleanedChannels, cleanupPromises, rtpReceivers, rtpSenders,
               usedPorts, setupPc, setupPort, cleanPc, cleanRef, redirPc,
               redirRef, redirIdx, termPc, aiRef, gracePending, callTimerPending,
               bridgeAlive, extAlive, eff, sigint >>

\* what the handlers of the session leave alone in the orchestrator
AiFrame ==
  UNCHANGED << kind, cfg, failing, snd, extStart, extMapExt, extMapSip, ignoreExtEvents,
               cleanedChannels, cleanupPromises, rtpReceivers, rtpSenders,
               usedPorts, setupPc, setupPort, cleanPc, cleanRef, redirPc,
               redirRef, redirIdx, termPc, aiRef, gracePending, callTimerPending,
               bridgeAlive, extAlive, eff, sigint >>

\* a finalizer without the terminationInFlight guard
finalizeAgain(a) == [ a EXCEPT !.terminationInFlight = TRUE, !.finalPc = "waiting" ]

\* finalizeAndTerminate, up to its first await (waitForBufferEmpty, then
\* the 250 ms tail): a finalizer that has run once returns at once
finalizeAndTerminate(a) ==
  IF a.terminationInFlight THEN a
  ELSE [ a EXCEPT !.terminationInFlight = TRUE, !.finalPc = "waiting" ]

\* the handlers' `if (terminateRequested) finalizeAndTerminate()`
FinalizeIfRequested(a) ==
  IF a.terminateRequested THEN finalizeAndTerminate(a) ELSE a

\* handleClose: the WebSocket closed
handleClose(c) ==
  LET k == aiRef[c] IN
  /\ \/ wsState[c] \in {"closing", "errored"} /\ UNCHANGED budget
     \/ wsState[c] = "connecting" /\ setupPc[c] = "failed" /\ UNCHANGED budget
     \/ wsState[c] = "open" /\ Spend
  /\ wsState' = [ wsState EXCEPT ![c] = "closed" ]
  /\ obj' = [ obj EXCEPT ![c][k].wsClosed = TRUE, ![c][k].ws = FALSE ]
  /\ sipMap' = [ sipMap EXCEPT ![c] = k ]
  /\ ai' = [ ai EXCEPT ![c] = FinalizeIfRequested(@) ]
  /\ UNCHANGED << senderQ, aiEff >>
  /\ AiFrame

\* processMessage, response.audio.delta with audio in it: the session
\* stores the byte count in its record, writes the record into the registry
\* and pushes the audio to the sender
AudioDelta(c) ==
  /\ SessionStarted(c)
  /\ sipMap' = [ sipMap EXCEPT ![c] = aiRef[c] ]
  /\ senderQ' = [ senderQ EXCEPT ![c] = IF @ \in {"idle", "busy", "drained"} THEN "busy" ELSE @ ]
  /\ UNCHANGED << obj, wsState, budget >>
  /\ SessionFrame

\* processMessage, conversation.item.created with role user (barge-in):
\* streamHandler.stopPlayback() drops the sender's buffer and queue
StopPlayback(c) ==
  /\ SessionStarted(c)
  /\ senderQ[c] = "busy"
  /\ senderQ' = [ senderQ EXCEPT ![c] = "drained" ]
  /\ UNCHANGED << sipMap, obj, wsState, budget >>
  /\ SessionFrame

----------------------------------------------------------------------------
(* RTP sender.  Its queues are "none" (no sender), "idle" (empty), "busy"
   (audio queued), "drained" (empty since the last packet was sent or the
   queue was dropped, the tick that finds them empty has not run yet),
   "ended" (end() was called) *)

\* the pacer sent the last queued packet
SenderDrain(c) ==
  /\ senderQ[c] = "busy"
  /\ senderQ' = [ senderQ EXCEPT ![c] = "drained" ]
  /\ UNCHANGED << sipMap, obj, wsState, budget >>
  /\ SessionFrame

\* a terminateAfterPlayback that takes the queues for empty
isQueueEmptyAlways(c, d) == TRUE

\* the sender's queues are empty as terminateAfterPlayback reads them
isQueueEmpty(c, d) == ~d.sh \/ senderQ[c] # "busy"

----------------------------------------------------------------------------
(* terminateAfterPlayback *)

\* a terminateAfterPlayback that looks at the cleaned marks only
TerminateSkipsCleanedOnly(c, d) == d.cleaned \/ c \in cleanedChannels

\* terminateAfterPlayback returns at once: the call is being handed to the
\* queue, or is already cleaned
TerminateSkips(c, d) == d.redirecting \/ d.cleaned \/ c \in cleanedChannels

\* terminateAfterPlayback is called (onTerminateRequest).  Positions:
\* "idle" (not called), "skipped" (returned at once), "now" (cleanupChannel
\* called because the queues were empty), "wait" (waiting for audioFinished
\* or the fallback), "after" (cleanupChannel called after the wait)
terminateAfterPlaybackBody(c) ==
  LET k  == GetOrNew(sipMap, c)
      d  == obj[c][k]
      ob1 == [ obj EXCEPT ![c][k].tap = TRUE ]
      sm1 == [ sipMap EXCEPT ![c] = k ]
  IN
  /\ termPc[c] = "idle"
  /\ IF TerminateSkips(c, d)
     THEN /\ termPc' = [ termPc EXCEPT ![c] = "skipped" ]
          /\ UNCHANGED << kind, cfg, failing, snd, extStart, sipMap, obj, extMapExt, extMapSip,
                          ignoreExtEvents, cleanedChannels, cleanupPromises,
                          rtpReceivers, rtpSenders, usedPorts, setupPc, setupPort,
                          cleanPc, cleanRef, redirPc, redirRef, redirIdx, aiRef,
                          wsState, senderQ, gracePending, callTimerPending,
                          bridgeAlive, extAlive, eff, sigint >>
     ELSE IF isQueueEmpty(c, d)
     THEN /\ termPc' = [ termPc EXCEPT ![c] = "now" ]
          /\ CleanupStep(sm1, ob1, gracePending, extMapExt, senderQ, {c}, NoId, "assistant-terminate")
          /\ UNCHANGED << kind, cfg, failing, snd, extStart, setupPort, redirPc, redirRef, redirIdx,
                          aiRef, sigint >>
          /\ UNCHANGED setupPc
     ELSE /\ termPc' = [ termPc EXCEPT ![c] = "wait" ]
          /\ obj' = ob1
          /\ sipMap' = sm1
          /\ UNCHANGED << kind, cfg, failing, snd, extStart, extMapExt, extMapSip, ignoreExtEvents, cleanedChannels, cleanupPromises,
                          rtpReceivers, rtpSenders, usedPorts, setupPc, setupPort,
                          cleanPc, cleanRef, redirPc, redirRef, redirIdx, aiRef,
                          wsState, senderQ, gracePending, callTimerPending,
                          bridgeAlive, extAlive, eff, sigint >>

\* terminateAfterPlayback as the orchestrator runs it; the variables of the
\* session are the session's own
terminateAfterPlayback(c) ==
  /\ terminateAfterPlaybackBody(c)
  /\ UNCHANGED << ai, aiEff >>

\* the session calls onTerminateRequest (at most once per session)
OnTerminateRequest(c) ==
  /\ SessionStarted(c)
  /\ Spend
  /\ terminateAfterPlayback(c)

\* the sender emits audioFinished: a waiting terminateAfterPlayback goes on
\* to cleanupChannel
AudioFinished(c) ==
  /\ senderQ[c] = "drained"
  /\ IF termPc[c] = "wait"
     THEN /\ termPc' = [ termPc EXCEPT ![c] = "after" ]
          /\ CleanupStep(sipMap, obj, gracePending, extMapExt,
                         [ senderQ EXCEPT ![c] = "idle" ], {c}, NoId, "assistant-terminate")
          /\ CleanupFrame
          /\ UNCHANGED << setupPc, budget >>
     ELSE /\ senderQ' = [ senderQ EXCEPT ![c] = "idle" ]
          /\ UNCHANGED << sipMap, obj, wsState, budget >>
          /\ SessionFrame

\* TERMINATE_FALLBACK_MS elapsed while terminateAfterPlayback waits
TerminateFallback(c) ==
  /\ termPc[c] = "wait"
  /\ termPc' = [ termPc EXCEPT ![c] = "after" ]
  /\ CleanupStep(sipMap, obj, gracePending, extMapExt, senderQ, {c}, NoId, "assistant-terminate")
  /\ CleanupFrame
  /\ UNCHANGED << setupPc, budget >>

----------------------------------------------------------------------------
(* redirectToQueue *)

\* tryContexts: REDIRECTION_QUEUE_CONTEXT (if set), ext-queues, from-internal
\* a handoff that tries the configured context only
tryContextsNoFallback ==
  IF cfg.queueCtx THEN << "queue-context" >> ELSE << "ext-queues", "from-internal" >>

tryContexts ==
  IF cfg.queueCtx THEN << "queue-context", "ext-queues", "from-internal" >>
                  ELSE << "ext-queues", "from-internal" >>

\* a redirectToQueue that does not look at the redirecting flag
RedirectRefusedFlagUnread(c) == ~cfg.queue \/ sipMap[c] = NoSlot

\* redirectToQueue returns at once: no queue configured, no Call record, or
\* a handoff already in progress
RedirectRefused(c) ==
  \/ ~cfg.queue
  \/ sipMap[c] = NoSlot
  \/ obj[c][sipMap[c]].redirecting

RedirectFrame ==
  UNCHANGED << kind, cfg, failing, snd, extStart, ai, aiEff, sipMap, extMapExt, extMapSip, cleanedChannels,
               cleanupPromises, setupPc, setupPort, cleanPc, cleanRef, termPc,
               aiRef, gracePending, callTimerPending, sigint >>

\* redirectToQueue from the position `from` on, up to its next await.
\* Positions: "start", "ext" (external-leg hangup pending), "bridge"
\* (bridge destroy pending), "cont" (continueInDialplan pending)
RedirectRun(c, k, from, flagged) ==
  LET d == obj[c][k]
      \* the external-leg hangup is requested
      toExt == from = "start" /\ d.ext
      \* the bridge destroy is requested
      toBridge == ~toExt /\ from \in {"start", "ext"} /\ d.bridge
      \* RTP sockets are closed, the port released, the first context tried
      toCont == ~toExt /\ ~toBridge
  IN
  /\ redirPc' = [ redirPc EXCEPT ![c] =
                    IF toExt THEN "ext" ELSE IF toBridge THEN "bridge" ELSE "cont" ]
  /\ redirRef' = [ redirRef EXCEPT ![c] = k ]
  /\ redirIdx' = [ redirIdx EXCEPT ![c] = IF toCont THEN 1 ELSE @ ]
  /\ obj' = IF flagged THEN [ obj EXCEPT ![c][k].redirecting = TRUE ] ELSE obj
  /\ senderQ' = [ senderQ EXCEPT ![c] = IF from = "start" /\ d.sh THEN "ended" ELSE @ ]
  /\ wsState' = [ wsState EXCEPT ![c] =
                    IF from = "start" /\ d.ws /\ ~d.wsClosed /\ @ = "open"
                    THEN "closing" ELSE @ ]
  /\ ignoreExtEvents' = IF from = "ext" THEN ignoreExtEvents \cup {c} ELSE ignoreExtEvents
  /\ extAlive' = [ extAlive EXCEPT ![c] = IF toExt /\ @ = "up" THEN "down" ELSE @ ]
  /\ bridgeAlive' = [ bridgeAlive EXCEPT ![c] = IF toBridge /\ @ = "up" THEN "down" ELSE @ ]
  /\ rtpReceivers' = IF toCont THEN rtpReceivers \ {c} ELSE rtpReceivers
  /\ rtpSenders' = IF toCont THEN rtpSenders \ {c} ELSE rtpSenders
  /\ usedPorts' = IF toCont THEN releaseRtpPort(usedPorts, d.rtpPort) ELSE usedPorts
  /\ eff' = [ eff EXCEPT
       ![c].rCalls = IF from = "start" THEN Bump(@) ELSE @,
       ![c].rRuns = IF flagged THEN Bump(@) ELSE @,
       ![c].rLate = @ \/ (flagged /\ cleanPc[c] \in StWs .. StBridge),
       ![c].rExtHangup = IF toExt THEN Bump(@) ELSE @,
       ![c].rBridgeDestroy = IF toBridge THEN Bump(@) ELSE @,
       ![c].rRelease = IF toCont /\ d.rtpPort # NoPort THEN Bump(@) ELSE @,
       ![c].rContinue = IF toCont THEN Bump(@) ELSE @ ]
  /\ RedirectFrame

\* an assistant transcript matches a redirect phrase: onRedirectRequest
\* calls redirectToQueue
OnRedirectRequest(c) ==
  /\ SessionStarted(c)
  /\ Spend
  /\ IF RedirectRefused(c)
     THEN /\ eff' = [ eff EXCEPT ![c].rCalls = Bump(@) ]
          /\ UNCHANGED << obj, ignoreExtEvents, rtpReceivers, rtpSenders,
                          usedPorts, redirPc, redirRef, redirIdx, wsState, senderQ,
                          bridgeAlive, extAlive >>
          /\ RedirectFrame
     ELSE RedirectRun(c, sipMap[c], "start", TRUE)

\* the external-leg hangup returned
RedirectExtHungUp(c) ==
  /\ redirPc[c] = "ext"
  /\ RedirectRun(c, redirRef[c], "ext", FALSE)
  /\ UNCHANGED budget

\* the bridge destroy returned
RedirectBridgeDestroyed(c) ==
  /\ redirPc[c] = "bridge"
  /\ RedirectRun(c, redirRef[c], "bridge", FALSE)
  /\ UNCHANGED budget

RedirectTailFrame ==
  UNCHANGED << obj, ignoreExtEvents, rtpReceivers, rtpSenders,
               usedPorts, redirRef, wsState, senderQ, bridgeAlive, extAlive, budget >>

\* continueInDialplan succeeded: the SIP leg is in the queue
RedirectContinued(c) ==
  /\ redirPc[c] = "cont"
  /\ redirPc' = [ redirPc EXCEPT ![c] = "done" ]
  /\ eff' = [ eff EXCEPT ![c].rContinued = TRUE ]
  /\ UNCHANGED redirIdx
  /\ RedirectTailFrame
  /\ RedirectFrame

\* continueInDialplan failed: try the next context, hang up the SIP leg
\* when there is none left
RedirectContinueFailed(c) ==
  /\ redirPc[c] = "cont"
  /\ IF redirIdx[c] < Len(tryContexts)
     THEN /\ redirIdx' = [ redirIdx EXCEPT ![c] = @ + 1 ]
          /\ eff' = [ eff EXCEPT ![c].rContinue = Bump(@) ]
          /\ UNCHANGED redirPc
     ELSE /\ redirPc' = [ redirPc EXCEPT ![c] = "hangup" ]
          /\ eff' = [ eff EXCEPT ![c].rSipHangup = Bump(@) ]
          /\ UNCHANGED redirIdx
  /\ RedirectTailFrame
  /\ RedirectFrame

\* the fallback hangup returned
RedirectHangupDone(c) ==
  /\ redirPc[c] = "hangup"
  /\ redirPc' = [ redirPc EXCEPT ![c] = "done" ]
  /\ UNCHANGED << redirIdx, eff >>
  /\ RedirectTailFrame
  /\ RedirectFrame

----------------------------------------------------------------------------
(* Timers and bridge events *)

\* the call outlasts CALL_DURATION_LIMIT_SECONDS: the timer fires and the SIP
\* leg is hung up
CallDurationTimeout(c) ==
  /\ callTimerPending[c]
  /\ Spend
  /\ callTimerPending' = [ callTimerPending EXCEPT ![c] = FALSE ]
  /\ eff' = [ eff EXCEPT ![c].tSipHangup = Bump(@) ]
  /\ UNCHANGED << kind, cfg, failing, snd, extStart, ai, aiEff, sipMap, obj, extMapExt, extMapSip, ignoreExtEvents, cleanedChannels, cleanupPromises, rtpReceivers,
                  rtpSenders, usedPorts, setupPc, setupPort, cleanPc, cleanRef,
                  redirPc, redirRef, redirIdx, termPc, aiRef, wsState, senderQ,
                  gracePending, bridgeAlive, extAlive, sigint >>

\* a 10 s timer armed with the entry deletes the external leg from
\* ignoreExtEvents
IgnoreExpired(c) ==
  /\ c \in ignoreExtEvents
  /\ ignoreExtEvents' = ignoreExtEvents \ {c}
  /\ UNCHANGED << kind, cfg, failing, snd, extStart, ai, aiEff, sipMap, obj, extMapExt, extMapSip, cleanedChannels,
                  cleanupPromises, rtpReceivers, rtpSenders, usedPorts, setupPc,
                  setupPort, cleanPc, cleanRef, redirPc, redirRef, redirIdx,
                  termPc, aiRef, wsState, senderQ, gracePending, callTimerPending,
                  bridgeAlive, extAlive, eff, budget, sigint >>

\* a handler that takes every destroyed bridge for the bridge of the call
BridgeOwnerAny(c) == TRUE

\* the registered call that owns the bridge of call-id c
BridgeOwner(c) == sipMap[c] # NoSlot /\ obj[c][sipMap[c]].bridge

\* BridgeDestroyed handler
BridgeDestroyed(c) ==
  /\ bridgeAlive[c] # "no"
  /\ Spend
  /\ CleanupStep(sipMap, obj, gracePending, extMapExt, senderQ,
                 IF BridgeOwner(c) THEN {c} ELSE {}, NoId, "BridgeDestroyed")
  /\ CleanupFrame
  /\ UNCHANGED << setupPc, termPc >>

----------------------------------------------------------------------------
(* SIGINT handler *)

\* a handler that waits for the tasks it has started only
SigintAwaitsTasksOnly(before, after) == after \ before

\* the cleanups Promise.allSettled waits for, of the cleanups suspended before
\* and after the handler's calls of cleanupChannel: every promise in the map
\* of cleanups in flight, and the tasks just started
SigintAwaited(before, after) == after

\* SIGINT: cleanupChannel for every registered call, then wait for the
\* cleanups in flight
Sigint ==
  /\ sigint.st = "no"
  /\ Spend
  /\ CleanupStep(sipMap, obj, gracePending, extMapExt, senderQ,
                 { c \in Ids : sipMap[c] # NoSlot }, NoId, "sigint")
  /\ sigint' = [ st |-> "waiting",
                  reg |-> { c \in Ids : sipMap[c] # NoSlot },
                  flying |-> { c \in Ids : cleanPc[c] \in StWs .. StMail },
                  wait |-> SigintAwaited({ c \in Ids : cleanPc[c] \in StWs .. StMail },
                                         { c \in Ids : cleanPc'[c] \in StWs .. StMail }) ]
  /\ CleanupFrame0
  /\ UNCHANGED << setupPc, termPc >>

\* all awaited cleanups have settled: the maps are cleared, the client is
\* stopped and the process exits.  ariClient.stop() belongs to the client
\* library; no handler of this program is taken to run between the clearing
\* of the maps and process.exit.
SigintExit ==
  /\ sigint.st = "waiting"
  /\ \A c \in sigint.wait : cleanPc[c] = StDone
  /\ sigint' = [ sigint EXCEPT !.st = "exited" ]
  /\ sipMap' = [ c \in Ids |-> NoSlot ]
  /\ extMapExt' = {}
  /\ extMapSip' = {}
  /\ cleanupPromises' = {}
  /\ UNCHANGED << kind, cfg, failing, snd, extStart, ai, aiEff, obj, ignoreExtEvents, cleanedChannels,
                  rtpReceivers, rtpSenders, usedPorts, setupPc, setupPort, cleanPc,
                  cleanRef, redirPc, redirRef, redirIdx, termPc, aiRef, wsState,
                  senderQ, gracePending, callTimerPending, bridgeAlive, extAlive,
                  eff, budget >>

----------------------------------------------------------------------------
(* Specification: one channel, every interleaving of its events *)

\* EMAIL_ENABLED, REDIRECTION_QUEUE set, REDIRECTION_QUEUE_CONTEXT set (read
\* only when there is a queue), CALL_DURATION_LIMIT_SECONDS > 0
Configs ==
  { r \in [ email : BOOLEAN, queue : BOOLEAN, queueCtx : BOOLEAN, durLimit : BOOLEAN ] :
      r.queueCtx => r.queue }

InitState ==
  /\ extStart = [ c \in Ids |-> NoExtStart ]
  /\ sipMap = [ c \in Ids |-> NoSlot ]
  /\ obj = [ c \in Ids |-> [ k \in Slots |-> EmptyObj ] ]
  /\ extMapExt = {}
  /\ extMapSip = {}
  /\ ignoreExtEvents = {}
  /\ cleanedChannels = {}
  /\ cleanupPromises = {}
  /\ rtpReceivers = {}
  /\ rtpSenders = {}
  /\ usedPorts = {}
  /\ setupPc = [ c \in Ids |-> "idle" ]
  /\ setupPort = [ c \in Ids |-> NoPort ]
  /\ cleanPc = [ c \in Ids |-> StNone ]
  /\ cleanRef = [ c \in Ids |-> "pre" ]
  /\ redirPc = [ c \in Ids |-> "idle" ]
  /\ redirRef = [ c \in Ids |-> "main" ]
  /\ redirIdx = [ c \in Ids |-> 0 ]
  /\ termPc = [ c \in Ids |-> "idle" ]
  /\ aiRef = [ c \in Ids |-> "main" ]
  /\ wsState = [ c \in Ids |-> "none" ]
  /\ senderQ = [ c \in Ids |-> "none" ]
  /\ gracePending = [ c \in Ids |-> {} ]
  /\ callTimerPending = [ c \in Ids |-> FALSE ]
  /\ bridgeAlive = [ c \in Ids |-> "no" ]
  /\ extAlive = [ c \in Ids |-> "no" ]
  /\ eff = [ c \in Ids |-> NoEff ]
  /\ budget = 0
  /\ sigint = [ st |-> "no", reg |-> {}, flying |-> {}, wait |-> {} ]
  /\ ai = [ c \in Ids |-> NewSession ]
  /\ aiEff = [ c \in Ids |-> NoAiEff ]

Init ==
  /\ InitState
  /\ snd = NoSender
  /\ failing = "none"
  /\ cfg \in Configs
  /\ \E k \in {"sip", "local", "unknown"} : kind = [ c \in Ids |-> IF c = "c1" THEN k ELSE "off" ]

\* the process runs until the SIGINT handler exits it
Alive == sigint.st # "exited"

Next ==
  \/ \E c \in Ids : Alive /\ StasisStart(c)
  \/ \E c \in Ids : Alive /\ SetupBridgeCreated(c)
  \/ \E c \in Ids : Alive /\ SetupLegAdded(c)
  \/ \E c \in Ids : Alive /\ SetupAnswered(c)
  \/ \E c \in Ids : Alive /\ SetupReceiverStarted(c)
  \/ \E c \in Ids : Alive /\ SetupExternalMedia(c)
  \/ \E c \in Ids : Alive /\ WsOpen(c)
  \/ \E c \in Ids : Alive /\ SessionReady(c)
  \/ \E c \in Ids : Alive /\ SetupError(c)
  \/ \E c \in Ids, leg \in {"sip", "ext"} : Alive /\ StasisEnd(c, leg)
  \/ \E c \in Ids, leg \in {"sip", "ext"} : Alive /\ ChannelDestroyed(c, leg)
  \/ \E c \in Ids, k \in Slots : Alive /\ GraceTimeout(c, k)
  \/ \E c \in Ids : Alive /\ CleanupResume(c)
  \/ \E c \in Ids : Alive /\ BridgeDestroyed(c)
  \/ \E c \in Ids : Alive /\ handleClose(c)
  \/ \E c \in Ids : Alive /\ AudioDelta(c)
  \/ \E c \in Ids : Alive /\ StopPlayback(c)
  \/ \E c \in Ids : Alive /\ SenderDrain(c)
  \/ \E c \in Ids : Alive /\ AudioFinished(c)
  \/ \E c \in Ids : Alive /\ OnTerminateRequest(c)
  \/ \E c \in Ids : Alive /\ TerminateFallback(c)
  \/ \E c \in Ids : Alive /\ OnRedirectRequest(c)
  \/ \E c \in Ids : Alive /\ RedirectExtHungUp(c)
  \/ \E c \in Ids : Alive /\ RedirectBridgeDestroyed(c)
  \/ \E c \in Ids : Alive /\ RedirectContinued(c)
  \/ \E c \in Ids : Alive /\ RedirectContinueFailed(c)
  \/ \E c \in Ids : Alive /\ RedirectHangupDone(c)
  \/ \E c \in Ids : Alive /\ CallDurationTimeout(c)
  \/ \E c \in Ids : Alive /\ IgnoreExpired(c)
  \/ Alive /\ Sigint
  \/ Alive /\ SigintExit

Spec == Init /\ [][Next]_vars

----------------------------------------------------------------------------
(* Specification: two calls on one port pool.  Both calls are SIP calls with
   a queue configured; call setup succeeds, the assistant may hand a call to
   the queue, and SIP legs end. *)

InitPorts ==
  /\ InitState
  /\ snd = NoSender
  /\ failing = "none"
  /\ cfg = [ email |-> FALSE, queue |-> TRUE, queueCtx |-> FALSE, durLimit |-> FALSE ]
  /\ kind = [ c \in Ids |-> "sip" ]

NextPorts ==
  \/ \E c \in Ids : StasisStart(c)
  \/ \E c \in Ids : SetupBridgeCreated(c)
  \/ \E c \in Ids : SetupLegAdded(c)
  \/ \E c \in Ids : SetupAnswered(c)
  \/ \E c \in Ids : SetupReceiverStarted(c)
  \/ \E c \in Ids : SetupExternalMedia(c)
  \/ \E c \in Ids : WsOpen(c)
  \/ \E c \in Ids : SessionReady(c)
  \/ \E c \in Ids : OnRedirectRequest(c)
  \/ \E c \in Ids : RedirectExtHungUp(c)
  \/ \E c \in Ids : RedirectBridgeDestroyed(c)
  \/ \E c \in Ids : RedirectContinued(c)
  \/ \E c \in Ids : StasisEnd(c, "sip")
  \/ \E c \in Ids, k \in Slots : GraceTimeout(c, k)
  \/ \E c \in Ids : CleanupResume(c)
  \/ \E c \in Ids : handleClose(c)

SpecPorts == InitPorts /\ [][NextPorts]_vars

----------------------------------------------------------------------------
(* Realtime session: processMessage, the finalizer and its watchdog *)

\* the handlers below write the session's variables and history
AiOnly ==
  /\ UNCHANGED << sipMap, obj, wsState, senderQ, budget >>
  /\ AiFrame

TranscriptTypes ==
  { "response.audio_transcript.done",
    "conversation.item.input_audio_transcription.completed" }

\* a processMessage that looks for phrases in every transcript
ScansPhrasesAlways(type) == TRUE

\* the transcripts processMessage looks for terminate and redirect phrases in
ScansPhrases(type) == type = "response.audio_transcript.done"

\* processMessage, a completed transcript with text in it: the line is
\* appended to the transcript file (the history keeps who spoke and whether
\* the text held a phrase); term / redir: the text contains a terminate / a
\* redirect phrase
TranscriptDone(c, type, term, redir) ==
  LET who == IF type = "response.audio_transcript.done" THEN "ASSISTANT" ELSE "USER"
      t   == ScansPhrases(type) /\ term
      r   == ScansPhrases(type) /\ redir
  IN
  /\ SessionStarted(c)
  /\ ai' = [ ai EXCEPT ![c] =
       IF t THEN [ @ EXCEPT !.terminateRequested = TRUE,
                           !.terminationWatchdogStarted = TRUE,
                           !.watchdogTimer = @ \/ ~ai[c].terminationWatchdogStarted ]
            ELSE @ ]
  /\ aiEff' = [ aiEff EXCEPT ![c].transcript = @ \cup {<< who, term \/ redir >>},
                             ![c].redirHooks = IF r THEN Bump(@) ELSE @ ]
  /\ AiOnly

\* response.audio_transcript.done
AssistantTranscript(c, term, redir) ==
  TranscriptDone(c, "response.audio_transcript.done", term, redir)

\* conversation.item.input_audio_transcription.completed
UserTranscript(c, term, redir) ==
  TranscriptDone(c, "conversation.item.input_audio_transcription.completed", term, redir)

\* a watchdog that leaves the finalizer to the other handlers
WatchdogIdles(a) == FALSE

\* the watchdog's `if (terminateRequested && !terminationInFlight)`
WatchdogFinalizes(a) == a.terminateRequested /\ ~a.terminationInFlight

\* the one-shot termination watchdog fires
TerminationWatchdog(c) ==
  /\ ai[c].watchdogTimer
  /\ ai' = [ ai EXCEPT ![c] =
       [ (IF WatchdogFinalizes(@)
          THEN finalizeAndTerminate(@) ELSE @) EXCEPT !.watchdogTimer = FALSE ] ]
  /\ UNCHANGED aiEff
  /\ AiOnly

\* processMessage, response.created: a response begins
ResponseCreated(c) ==
  /\ SessionStarted(c)
  /\ aiEff' = [ aiEff EXCEPT ![c].respDeltas = 0 ]
  /\ UNCHANGED ai
  /\ AiOnly

\* processMessage, response.audio.done
ResponseAudioDone(c) ==
  /\ SessionStarted(c)
  /\ ai' = [ ai EXCEPT ![c] = FinalizeIfRequested(@) ]
  /\ UNCHANGED aiEff
  /\ AiOnly

\* processMessage, error: the socket is closed
ErrorEvent(c) ==
  /\ SessionStarted(c)
  /\ wsState' = [ wsState EXCEPT ![c] = IF @ = "open" THEN "closing" ELSE @ ]
  /\ ai' = [ ai EXCEPT ![c] = FinalizeIfRequested(@) ]
  /\ UNCHANGED << sipMap, obj, senderQ, budget, aiEff >>
  /\ AiFrame

\* the finalizer's waits are over: onTerminateRequest is called
FinalizeDone(c) ==
  /\ ai[c].finalPc = "waiting"
  /\ ai' = [ ai EXCEPT ![c].finalPc = "done", ![c].terminateRequested = FALSE ]
  /\ aiEff' = [ aiEff EXCEPT ![c].termHooks = Bump(@) ]
  /\ AiOnly

\* the first audible delta the session has seen: the silence prefix is
\* prepended to it
FirstDelta(total, n) == total = n

\* processMessage, response.audio.delta of n bytes; a delta that is all 0x7f
\* is not audible and is dropped
ResponseAudioDelta(c, n, audible) ==
  LET total == ai[c].totalDeltaBytes + n IN
  /\ SessionStarted(c)
  /\ total <= MaxBytes
  /\ IF audible
     THEN /\ ai' = [ ai EXCEPT ![c].totalDeltaBytes = total ]
          /\ sipMap' = [ sipMap EXCEPT ![c] = aiRef[c] ]
          /\ senderQ' = [ senderQ EXCEPT ![c] =
                IF @ \in {"idle", "busy", "drained"} THEN "busy" ELSE @ ]
          /\ aiEff' = [ aiEff EXCEPT
                ![c].pushed = IF FirstDelta(total, n) THEN "prefixed" ELSE "plain",
                ![c].respDeltas = Bump(@) ]
     ELSE UNCHANGED << ai, sipMap, senderQ, aiEff >>
  /\ UNCHANGED << obj, wsState, budget >>
  /\ AiFrame

----------------------------------------------------------------------------
(* Realtime session: connection errors and retries *)

\* ws.on('error'): the socket failed.  With a terminate pending the
\* finalizer runs; otherwise a reconnect is scheduled in 1 s while retries
\* are left and the call is registered; otherwise startOpenAIWebSocket
\* rejects, and call setup (if it still waits for it) runs its catch block
WsError(c) ==
  /\ wsState[c] \in {"connecting", "open"}
  /\ setupPc[c] \in {"wsconnect", "stream", "done"}
  /\ IF ai[c].terminateRequested
     THEN /\ ai' = [ ai EXCEPT ![c] = finalizeAndTerminate(@) ]
          /\ wsState' = [ wsState EXCEPT ![c] = "errored" ]
          /\ UNCHANGED << sipMap, obj, senderQ, budget, aiEff >>
          /\ AiFrame
     ELSE IF ai[c].retryCount < maxRetries /\ sipMap[c] # NoSlot
     THEN /\ ai' = [ ai EXCEPT ![c].retryCount = @ + 1, ![c].retryTimer = TRUE ]
          /\ wsState' = [ wsState EXCEPT ![c] = "errored" ]
          /\ UNCHANGED << sipMap, obj, senderQ, budget, aiEff >>
          /\ AiFrame
     ELSE IF setupPc[c] = "done"
     THEN /\ wsState' = [ wsState EXCEPT ![c] = "errored" ]
          /\ UNCHANGED << sipMap, obj, senderQ, budget, ai, aiEff >>
          /\ AiFrame
     ELSE SetupCatch(c) /\ UNCHANGED budget

\* the 1 s timer of a scheduled reconnect fires: connectWebSocket
RetryTimer(c) ==
  /\ ai[c].retryTimer
  /\ ai' = [ ai EXCEPT ![c].retryTimer = FALSE ]
  /\ wsState' = [ wsState EXCEPT ![c] = "connecting" ]
  /\ UNCHANGED << sipMap, obj, senderQ, budget, aiEff >>
  /\ AiFrame

\* ws.on('open') of a reconnected socket, after startOpenAIWebSocket has
\* resolved: session.update is sent and the sender is requested
WsReopen(c) ==
  /\ wsState[c] = "connecting"
  /\ setupPc[c] = "done"
  /\ ai[c].openPc = "idle"
  /\ ai' = [ ai EXCEPT ![c].openPc = "stream" ]
  /\ wsState' = [ wsState EXCEPT ![c] = "open" ]
  /\ UNCHANGED << sipMap, obj, senderQ, budget, aiEff >>
  /\ AiFrame

\* streamAudio returned for a reconnected socket: the session stores the
\* socket and the sender in its record and writes it into the registry
StreamReady(c) ==
  LET k == aiRef[c] IN
  /\ ai[c].openPc = "stream"
  /\ ai' = [ ai EXCEPT ![c].openPc = "idle" ]
  /\ obj' = [ obj EXCEPT ![c][k].ws = TRUE, ![c][k].sh = TRUE ]
  /\ sipMap' = [ sipMap EXCEPT ![c] = k ]
  /\ senderQ' = [ senderQ EXCEPT ![c] = "idle" ]
  /\ UNCHANGED << wsState, budget, aiEff >>
  /\ AiFrame

----------------------------------------------------------------------------
(* Specification: the realtime session of one call.  The call is set up, the
   session handles the events of the AI service and the failures of its
   socket, the caller may hang up. *)

InitSession ==
  /\ InitState
  /\ snd = NoSender
  /\ failing = "none"
  /\ cfg = [ email |-> FALSE, queue |-> TRUE, queueCtx |-> FALSE, durLimit |-> FALSE ]
  /\ kind = [ c \in Ids |-> IF c = "c1" THEN "sip" ELSE "off" ]

NextSession ==
  \/ \E c \in Ids : StasisStart(c)
  \/ \E c \in Ids : SetupBridgeCreated(c)
  \/ \E c \in Ids : SetupLegAdded(c)
  \/ \E c \in Ids : SetupAnswered(c)
  \/ \E c \in Ids : SetupReceiverStarted(c)
  \/ \E c \in Ids : SetupExternalMedia(c)
  \/ \E c \in Ids : WsOpen(c)
  \/ \E c \in Ids : SessionReady(c)
  \/ \E c \in Ids, term \in BOOLEAN, redir \in BOOLEAN : AssistantTranscript(c, term, redir)
  \/ \E c \in Ids, term \in BOOLEAN, redir \in BOOLEAN : UserTranscript(c, term, redir)
  \/ \E c \in Ids : TerminationWatchdog(c)
  \/ \E c \in Ids : ResponseCreated(c)
  \/ \E c \in Ids, n \in 1 .. MaxDelta, audible \in BOOLEAN : ResponseAudioDelta(c, n, audible)
  \/ \E c \in Ids : StopPlayback(c)
  \/ \E c \in Ids : ResponseAudioDone(c)
  \/ \E c \in Ids : ErrorEvent(c)
  \/ \E c \in Ids : FinalizeDone(c)
  \/ \E c \in Ids : handleClose(c)

SpecSession == InitSession /\ [][NextSession]_vars

----------------------------------------------------------------------------
(* Specification: the socket of the realtime session of one call.  The call
   is set up, the socket may fail at any time and is reconnected, the caller
   may hang up. *)

NextRetry ==
  \/ \E c \in Ids : StasisStart(c)
  \/ \E c \in Ids : SetupBridgeCreated(c)
  \/ \E c \in Ids : SetupLegAdded(c)
  \/ \E c \in Ids : SetupAnswered(c)
  \/ \E c \in Ids : SetupReceiverStarted(c)
  \/ \E c \in Ids : SetupExternalMedia(c)
  \/ \E c \in Ids : WsOpen(c)
  \/ \E c \in Ids : SessionReady(c)
  \/ \E c \in Ids : WsError(c)
  \/ \E c \in Ids : RetryTimer(c)
  \/ \E c \in Ids : WsReopen(c)
  \/ \E c \in Ids : StreamReady(c)
  \/ \E c \in Ids : handleClose(c)
  \/ \E c \in Ids : StasisEnd(c, "sip")
  \/ \E c \in Ids, k \in Slots : GraceTimeout(c, k)
  \/ \E c \in Ids : CleanupResume(c)

SpecRetry == InitSession /\ [][NextRetry]_vars

----------------------------------------------------------------------------
(* Specification: graceful termination of one call.  The session's finalizer
   calls onTerminateRequest, which is terminateAfterPlayback; the timers of
   the program (termination watchdog, the finalizer's bounded waits, the
   terminate fallback) fire when they are due, every other event may or may
   not arrive. *)

\* the finalizer's waits are over: onTerminateRequest is called and runs
\* terminateAfterPlayback up to its first await
FinalizeHook(c) ==
  /\ ai[c].finalPc = "waiting"
  /\ ai' = [ ai EXCEPT ![c].finalPc = "done", ![c].terminateRequested = FALSE ]
  /\ aiEff' = [ aiEff EXCEPT ![c].termHooks = Bump(@) ]
  /\ terminateAfterPlaybackBody(c)
  /\ UNCHANGED budget

NextTerminate ==
  \/ \E c \in Ids : StasisStart(c)
  \/ \E c \in Ids : SetupBridgeCreated(c)
  \/ \E c \in Ids : SetupLegAdded(c)
  \/ \E c \in Ids : SetupAnswered(c)
  \/ \E c \in Ids : SetupReceiverStarted(c)
  \/ \E c \in Ids : SetupExternalMedia(c)
  \/ \E c \in Ids : WsOpen(c)
  \/ \E c \in Ids : SessionReady(c)
  \/ \E c \in Ids, term \in BOOLEAN : AssistantTranscript(c, term, FALSE)
  \/ \E c \in Ids : TerminationWatchdog(c)
  \/ \E c \in Ids : ResponseAudioDone(c)
  \/ \E c \in Ids : ErrorEvent(c)
  \/ \E c \in Ids : WsError(c)
  \/ \E c \in Ids : handleClose(c)
  \/ \E c \in Ids : FinalizeHook(c)
  \/ \E c \in Ids : AudioDelta(c)
  \/ \E c \in Ids : SenderDrain(c)
  \/ \E c \in Ids : AudioFinished(c)
  \/ \E c \in Ids : TerminateFallback(c)
  \/ \E c \in Ids : OnRedirectRequest(c)
  \/ \E c \in Ids : RedirectExtHungUp(c)
  \/ \E c \in Ids : RedirectBridgeDestroyed(c)
  \/ \E c \in Ids : RedirectContinued(c)
  \/ \E c \in Ids : StasisEnd(c, "sip")
  \/ \E c \in Ids, k \in Slots : GraceTimeout(c, k)
  \/ \E c \in Ids : CleanupResume(c)

\* the timers fire
FairTerminate ==
  \A c \in Ids :
    /\ WF_vars(TerminationWatchdog(c))
    /\ WF_vars(FinalizeHook(c))
    /\ WF_vars(TerminateFallback(c))

SpecTerminate == InitSession /\ [][NextTerminate]_vars /\ FairTerminate

----------------------------------------------------------------------------
(* StasisStart of the external-media leg.  The leg enters the application
   once channels.externalMedia was requested, possibly before call setup has
   written the leg's entry of extMap: the handler looks the entry up, and
   while there is none it waits 50 ms and looks again. *)

ExtFrame ==
  UNCHANGED << kind, cfg, failing, snd, sipMap, obj, extMapExt, extMapSip,
               ignoreExtEvents, cleanedChannels, cleanupPromises, rtpReceivers,
               rtpSenders, usedPorts, setupPc, setupPort, cleanPc, cleanRef,
               redirPc, redirRef, redirIdx, termPc, aiRef, wsState, senderQ,
               gracePending, callTimerPending, bridgeAlive, extAlive, eff, budget,
               sigint, ai, aiEff >>

\* a handler that polls without a limit
PollsOnUnbounded(n) == TRUE

\* the loop condition `attempts < maxAttempts` of the handler
PollsOn(n) == n < maxAttempts

\* the handler after a lookup that found the mapping (found) or did not,
\* with n polls made: it calls addExtToBridge, waits again, or logs and ends
ExtLookedUp(e, found, n) ==
  IF found THEN [ e EXCEPT !.pc = "add", !.attempts = n, !.adds = @ + 1 ]
  ELSE IF PollsOn(n) THEN [ e EXCEPT !.pc = "poll", !.attempts = n ]
  ELSE [ e EXCEPT !.pc = "done", !.attempts = n, !.gaveUp = TRUE ]

\* StasisStart of the external leg arrives: the first lookup
ExtStasisStart(c) ==
  /\ extStart[c].pc = "none"
  /\ setupPc[c] = "extmedia" \/ extAlive[c] = "up"
  /\ extStart' = [ extStart EXCEPT ![c] = ExtLookedUp(@, c \in extMapExt, 0) ]
  /\ ExtFrame

\* the 50 ms wait is over: look up again, count the attempt
ExtPoll(c) ==
  /\ extStart[c].pc = "poll"
  /\ extStart' = [ extStart EXCEPT ![c] = ExtLookedUp(@, c \in extMapExt, @.attempts + 1) ]
  /\ ExtFrame

\* addExtToBridge returned (ok) or threw; the throw is logged.  The leg can
\* be added only to a bridge that is still there
ExtAdded(c, ok) ==
  /\ extStart[c].pc = "add"
  /\ ok => bridgeAlive[c] = "up"
  /\ extStart' = [ extStart EXCEPT ![c].pc = "done", ![c].bridged = ok, ![c].failed = ~ok ]
  /\ ExtFrame

NextExtStart ==
  \/ \E c \in Ids : StasisStart(c)
  \/ \E c \in Ids : SetupBridgeCreated(c)
  \/ \E c \in Ids : SetupLegAdded(c)
  \/ \E c \in Ids : SetupAnswered(c)
  \/ \E c \in Ids : SetupReceiverStarted(c)
  \/ \E c \in Ids : SetupExternalMedia(c)
  \/ \E c \in Ids : WsOpen(c)
  \/ \E c \in Ids : SessionReady(c)
  \/ \E c \in Ids, leg \in {"sip", "ext"} : StasisEnd(c, leg)
  \/ \E c \in Ids, k \in Slots : GraceTimeout(c, k)
  \/ \E c \in Ids : CleanupResume(c)
  \/ \E c \in Ids : ExtStasisStart(c)
  \/ \E c \in Ids : ExtPoll(c)
  \/ \E c \in Ids, ok \in BOOLEAN : ExtAdded(c, ok)

SpecExtStart == Init /\ [][NextExtStart]_vars

----------------------------------------------------------------------------
(* Waiting for playback to drain, two calls.  The senders of all calls emit
   audioFinished(id) on one emitter, rtpEvents.  waitForBufferEmpty listens
   with rtpEvents.once and looks at the id in the listener; an emitter takes
   a once-listener off at the first event it delivers to it.
   terminateAfterPlayback listens with rtpEvents.on and takes its listener
   off itself. *)

\* response.audio.done with a terminate request pending: the finalizer
\* starts and waitForBufferEmpty registers its listener, if the call's
\* record has a sender
DrainWaitStart(c) ==
  LET has == sipMap[c] # NoSlot /\ obj[c][sipMap[c]].sh IN
  /\ SessionStarted(c)
  /\ ai[c].terminateRequested /\ ~ai[c].terminationInFlight
  /\ ai' = [ ai EXCEPT ![c] =
       [ finalizeAndTerminate(@) EXCEPT !.afOnce = has,
                                        !.waitEnd = IF has THEN "none" ELSE "nosender" ] ]
  /\ UNCHANGED aiEff
  /\ AiOnly

\* the time limit of waitForBufferEmpty is reached
DrainTimeout(c) ==
  /\ ai[c].finalPc = "waiting" /\ ai[c].waitEnd = "none"
  /\ ai' = [ ai EXCEPT ![c].waitEnd = "timeout" ]
  /\ UNCHANGED aiEff
  /\ AiOnly

\* waitForBufferEmpty has returned and the 250 ms tail is over: the finalizer
\* calls onTerminateRequest
DrainHook(c) ==
  /\ ai[c].waitEnd # "none"
  /\ FinalizeHook(c)

\* the sender of call b emits audioFinished(b): the once-listeners of all
\* calls run and are taken off, the one of b ends its wait; a
\* terminateAfterPlayback of b that waits goes on to cleanupChannel
EmitAudioFinished(b) ==
  /\ senderQ[b] = "drained"
  /\ ai' = [ c \in Ids |->
       [ ai[c] EXCEPT !.afOnce = FALSE,
                      !.waitEnd = IF c = b /\ ai[c].afOnce /\ @ = "none"
                                  THEN "finished" ELSE @ ] ]
  /\ IF termPc[b] = "wait"
     THEN /\ termPc' = [ termPc EXCEPT ![b] = "after" ]
          /\ CleanupStep(sipMap, obj, gracePending, extMapExt,
                         [ senderQ EXCEPT ![b] = "idle" ], {b}, NoId, "assistant-terminate")
          /\ UNCHANGED << kind, cfg, failing, snd, extStart, aiEff, setupPc, setupPort,
                          redirPc, redirRef, redirIdx, aiRef, budget, sigint >>
     ELSE /\ senderQ' = [ senderQ EXCEPT ![b] = "idle" ]
          /\ UNCHANGED << sipMap, obj, wsState, budget, aiEff >>
          /\ AiFrame

NextDrain ==
  \/ \E c \in Ids : StasisStart(c)
  \/ \E c \in Ids : SetupBridgeCreated(c)
  \/ \E c \in Ids : SetupLegAdded(c)
  \/ \E c \in Ids : SetupAnswered(c)
  \/ \E c \in Ids : SetupReceiverStarted(c)
  \/ \E c \in Ids : SetupExternalMedia(c)
  \/ \E c \in Ids : WsOpen(c)
  \/ \E c \in Ids : SessionReady(c)
  \/ \E c \in Ids : AssistantTranscript(c, TRUE, FALSE)
  \/ \E c \in Ids : AudioDelta(c)
  \/ \E c \in Ids : SenderDrain(c)
  \/ \E c \in Ids : DrainWaitStart(c)
  \/ \E c \in Ids : DrainTimeout(c)
  \/ \E c \in Ids : DrainHook(c)
  \/ \E c \in Ids : EmitAudioFinished(c)
  \/ \E c \in Ids : TerminateFallback(c)
  \/ \E c \in Ids : CleanupResume(c)

SpecDrain == InitPorts /\ [][NextDrain]_vars

----------------------------------------------------------------------------
(* Message pump of the realtime session of one call.  ws.on('message')
   queues the parsed events; every 25 ms a callback handles up to
   maxMessages of them, awaiting processMessage for each.  Of processMessage
   the pump sees what makes it wait: an assistant transcript with a
   terminate phrase ("terminate") sets terminateRequested, and
   response.audio.done ("done") then awaits the finalizer; every other event
   ("other") is handled without a wait. *)

\* a pump run that starts over after its wait
ResumeBudgetFresh(a) == maxMessages

\* the iterations a suspended run of the pump has left when it continues
ResumeBudget(a) == a.pumpLeft

\* the loop of the pump callback from the session state a on, with `left`
\* iterations left and n events started so far
RECURSIVE PumpLoop(_, _, _)
PumpLoop(a, left, n) ==
  IF left = 0 \/ a.messageQueue = << >>
  THEN [ a EXCEPT !.lastRun = n ]
  ELSE LET m  == Head(a.messageQueue)
           a1 == [ a EXCEPT !.messageQueue = Tail(@), !.started = Append(@, m.id) ]
           a2 == CASE m.type = "terminate" -> [ a1 EXCEPT !.terminateRequested = TRUE ]
                   [] m.type = "done" -> FinalizeIfRequested(a1)
                   [] OTHER -> a1
       IN  IF m.type = "done" /\ a.terminateRequested /\ ~a.terminationInFlight
           THEN [ a2 EXCEPT !.pumpSusp = TRUE, !.pumpAt = m.id,
                            !.pumpLeft = left - 1, !.pumpCount = n + 1 ]
           ELSE PumpLoop(a2, left - 1, n + 1)

\* ws.on('message'): the parsed event joins the queue
PumpMessage(c, type) ==
  /\ ai[c].recv < MaxMsgs
  /\ ai' = [ ai EXCEPT ![c].recv = @ + 1,
                       ![c].messageQueue = Append(@, [ id |-> ai[c].recv + 1, type |-> type ]) ]
  /\ UNCHANGED aiEff
  /\ AiOnly

\* the 25 ms interval fires: a new run of the pump callback
PumpTick(c) ==
  /\ ai[c].messageQueue # << >>
  /\ ai' = [ ai EXCEPT ![c] = PumpLoop(@, maxMessages, 0) ]
  /\ UNCHANGED aiEff
  /\ AiOnly

\* the finalizer's waits are over: onTerminateRequest is called, and the
\* pump run that awaited the finalizer goes on with its loop
PumpResume(c) ==
  /\ ai[c].pumpSusp
  /\ ai[c].finalPc = "waiting"
  /\ ai' = [ ai EXCEPT ![c] =
       PumpLoop([ @ EXCEPT !.finalPc = "done", !.terminateRequested = FALSE,
                           !.pumpSusp = FALSE ],
                ResumeBudget(@), @.pumpCount) ]
  /\ aiEff' = [ aiEff EXCEPT ![c].termHooks = Bump(@) ]
  /\ AiOnly

NextPump ==
  \/ \E c \in {"c1"}, type \in {"other", "terminate", "done"} : PumpMessage(c, type)
  \/ \E c \in {"c1"} : PumpTick(c)
  \/ \E c \in {"c1"} : PumpResume(c)

SpecPump == InitSession /\ [][NextPump]_vars

----------------------------------------------------------------------------
(* RTP sender / pacer of one call: push splits the audio into packets of
   PAYLOAD bytes, a 20 ms tick emits the packet at the head of the queue,
   stopPlayback drops what is buffered and queued *)

\* ulaw samples in one RTP packet
PAYLOAD == 160
\* the RTP sequence number has 16 bits; the 32-bit timestamp is kept as its
\* high and low 16-bit halves
Word == 65536

SenderFrame ==
  UNCHANGED << kind, cfg, failing, extStart, sipMap, obj, extMapExt, extMapSip, ignoreExtEvents,
               cleanedChannels, cleanupPromises, rtpReceivers,
               rtpSenders, usedPorts, setupPc, setupPort, cleanPc, cleanRef,
               redirPc, redirRef, redirIdx, termPc, aiRef, wsState, senderQ,
               gracePending, callTimerPending, bridgeAlive, extAlive, eff, budget,
               sigint, ai, aiEff >>

\* a sender that restarts the sequence number with every packet
NextSeqReset(n) == 0

\* the sequence number of the packet after the one numbered n
NextSeq(n) == (n + 1) % Word

\* the timestamp of the packet after the one stamped t
NextTs(t) ==
  [ hi |-> (t.hi + ((t.lo + PAYLOAD) \div Word)) % Word,
    lo |-> (t.lo + PAYLOAD) % Word ]

\* push(bytes): the bytes join the leftover; every full PAYLOAD of them
\* becomes a packet at the tail of the queue, the rest stays buffered
SenderPush(n) ==
  LET total  == snd.buf + n
      formed == total \div PAYLOAD
  IN
  /\ snd.on
  /\ snd.pushes < MaxPushes
  /\ snd' = [ snd EXCEPT !.buf = total % PAYLOAD,
                         !.queue = @ \o [ i \in 1 .. formed |-> snd.serial + i ],
                         !.serial = @ + formed,
                         !.pushes = @ + 1,
                         !.dirty = TRUE,
                         !.filled = TRUE ]
  /\ SenderFrame

\* stopPlayback(): buffer and queue are dropped
SenderStopPlayback ==
  /\ snd.on
  /\ snd' = [ snd EXCEPT !.buf = 0, !.queue = << >> ]
  /\ SenderFrame

\* a pacer that reports every tick that finds nothing to send
DrainEdgeAlways(s) == TRUE

\* audio was accepted since the last audioFinished
DrainEdge(s) == s.dirty

\* the pacing tick: the packet at the head of the queue is sent with the
\* next sequence number and timestamp; with nothing buffered and nothing
\* queued audioFinished is emitted once; otherwise the tick is idle
SenderTick ==
  /\ snd.on
  /\ IF snd.queue # << >>
     THEN snd' = [ snd EXCEPT
                     !.queue = Tail(@),
                     !.seq = NextSeq(@),
                     !.ts = NextTs(@),
                     !.last = [ pt |-> 0, len |-> PAYLOAD, seq |-> NextSeq(snd.seq),
                                ts |-> NextTs(snd.ts), serial |-> Head(snd.queue) ] ]
     ELSE IF snd.buf = 0 /\ DrainEdge(snd)
     THEN snd' = [ snd EXCEPT !.fin = @ + 1, !.dirty = FALSE, !.filled = FALSE ]
     ELSE snd' = [ snd EXCEPT !.idle = Bump(@) ]
  /\ SenderFrame

InitSender ==
  /\ InitState
  /\ failing = "none"
  /\ cfg = [ email |-> FALSE, queue |-> FALSE, queueCtx |-> FALSE, durLimit |-> FALSE ]
  /\ kind = [ c \in Ids |-> "off" ]
  \* the header counters start at zero or one packet before they wrap
  /\ \E seq0 \in { 0, Word - 1 },
        ts0 \in { [ hi |-> 0, lo |-> 0 ],
                  [ hi |-> 0, lo |-> Word - PAYLOAD ],
                  [ hi |-> Word - 1, lo |-> Word - PAYLOAD ] } :
        snd = NewSender(seq0, ts0)

NextSender ==
  \* half a packet, one packet, a packet and a half
  \/ \E n \in { 80, 160, 240 } : SenderPush(n)
  \/ SenderStopPlayback
  \/ SenderTick

SpecSender == InitSender /\ [][NextSender]_vars

----------------------------------------------------------------------------
(* Specification: events delivered twice.  One SIP call is set up; the PBX
   may deliver its StasisStart again while it is live, and the handler that
   runs again is followed until it has written its Call record or failed. *)

NextDup ==
  \/ \E c \in Ids : StasisStart(c)
  \/ \E c \in Ids : SetupBridgeCreated(c)
  \/ \E c \in Ids : SetupLegAdded(c)
  \/ \E c \in Ids : SetupAnswered(c)
  \/ \E c \in Ids : SetupReceiverStarted(c)
  \/ \E c \in Ids : ~eff[c].dupStart /\ SetupExternalMedia(c)
  \/ \E c \in Ids : WsOpen(c)
  \/ \E c \in Ids : SessionReady(c)
  \/ \E c \in Ids : StasisStartAgain(c)
  \/ \E c \in Ids : SetupError(c)
  \/ \E c \in Ids : CleanupResume(c)
  \/ \E c \in Ids : AudioDelta(c)
  \/ \E c \in Ids, leg \in {"sip", "ext"} : StasisEnd(c, leg)
  \/ \E c \in Ids, k \in Slots : GraceTimeout(c, k)
  \/ \E c \in Ids : BridgeDestroyed(c)

SpecDup == InitSession /\ [][NextDup]_vars

----------------------------------------------------------------------------
(* Specification: a failing teardown step.  One SIP call with the mailer
   enabled; one step of cleanupChannel throws, or its request fails, whenever
   a cleanup gets to it. *)

InitFail ==
  /\ InitState
  /\ snd = NoSender
  /\ failing \in TeardownSteps
  /\ cfg \in { r \in Configs : r.email /\ r.durLimit }
  /\ kind = [ c \in Ids |-> IF c = "c1" THEN "sip" ELSE "off" ]

SpecFail == InitFail /\ [][Next]_vars

----------------------------------------------------------------------------
(* Properties *)

\* the cleanup body of c has returned
CleanupCompleted(c) == cleanPc[c] = StDone

\* the cleanup body of c is suspended in a request
CleanupInFlight(c) == cleanPc[c] \in StWs .. StMail

\* C1: cleanup is idempotent.  However often cleanupChannel is invoked for
\* a call-id, its body runs at most once, and each teardown effect
\* (external-leg hangup, bridge destroy, SIP hangup, RTP port release,
\* mailer invocation) is issued at most once, as with a single invocation;
\* in particular at most one transcript email is sent per call-id.
C1_CleanupIdempotent ==
  \A c \in Ids :
    /\ eff[c].bodies <= 1
    /\ eff[c].extHangup <= 1
    /\ eff[c].bridgeDestroy <= 1
    /\ eff[c].sipHangup <= 1
    /\ eff[c].release <= 1
    /\ eff[c].mail <= 1

\* C1, witness: cleanupChannel was invoked at least twice for a call, its
\* body has returned, and every teardown effect was issued exactly once
C1_Witness ==
  \E c \in Ids :
    /\ eff[c].invoked >= 2
    /\ CleanupCompleted(c)
    /\ eff[c].bodies = 1
    /\ eff[c].extHangup = 1
    /\ eff[c].bridgeDestroy = 1
    /\ eff[c].sipHangup = 1
    /\ eff[c].release = 1
    /\ eff[c].mail = 1

\* C2: a second cleanup joins the first.  No cleanupChannel call issued
\* while a cleanup of the same call-id is in flight returns before that
\* cleanup has completed.
C2_SecondCleanupJoins == \A c \in Ids : ~eff[c].earlyReturn

\* the call is live: present in the registry and not yet cleaned
Live(c) == sipMap[c] # NoSlot /\ c \notin cleanedChannels

\* the RTP port the Call record of a registered call holds
PortOf(c) == obj[c][sipMap[c]].rtpPort

\* C3: no two live calls (present in the registry and not yet cleaned) hold
\* the same RTP port.
C3_PortsUnique ==
  \A c \in Ids, e \in Ids :
    (c # e /\ Live(c) /\ Live(e) /\ PortOf(c) # NoPort) => PortOf(c) # PortOf(e)

\* redirectToQueue has set `redirecting` for the call
Redirected(c) == \E k \in Slots : obj[c][k].redirecting

\* C4: once a call is redirected, the core issues no hangup for its SIP leg
\* (not from cleanup, not from the call-duration timer, not from
\* redirectToQueue itself) and does not invoke the transcript mailer.
C4_NoSipHangupAfterRedirect ==
  [][ \A c \in Ids :
        Redirected(c) =>
          /\ eff'[c].sipHangup = eff[c].sipHangup
          /\ eff'[c].tSipHangup = eff[c].tSipHangup
          /\ eff'[c].rSipHangup = eff[c].rSipHangup
          /\ eff'[c].mail = eff[c].mail ]_vars

\* terminateAfterPlayback calls cleanupChannel in this step
TerminateStartsCleanup(c) ==
  termPc[c] \notin {"now", "after"} /\ termPc'[c] \in {"now", "after"}

\* C5, as claimed: terminateAfterPlayback never starts cleanup before the
\* Sender has emitted audioFinished for the audio it was given, unless the
\* terminate fallback elapsed; also when the queue was emptied by barge-in or
\* is found empty by terminateAfterPlayback.
C5_NoCleanupBeforeAudioFinished ==
  [][ \A c \in Ids :
        TerminateStartsCleanup(c) =>
          \/ senderQ[c] \notin {"busy", "drained"}
          \/ AudioFinished(c)
          \/ TerminateFallback(c) ]_vars

\* C5, amended: terminateAfterPlayback never starts cleanup while audio is
\* still queued in the Sender, unless the terminate fallback elapsed.  It
\* starts cleanup at once when it finds the Sender's buffer and queue empty
\* (whether or not audioFinished was emitted since), and otherwise only after
\* audioFinished for that call or the fallback.
C5_NoCleanupWhileAudioQueued ==
  [][ \A c \in Ids :
        TerminateStartsCleanup(c) =>
          \/ senderQ[c] # "busy"
          \/ TerminateFallback(c) ]_vars

\* C5, witness: a cleanup was started by terminateAfterPlayback alone
C5_Witness ==
  \E c \in Ids :
    /\ termPc[c] \in {"now", "after"}
    /\ eff[c].invoked = 1
    /\ eff[c].bodies = 1

\* a leg-end event of the call was taken in
LegEndSeen(c) == \E k \in Slots : obj[c][k].sipEnded \/ obj[c][k].extEnded

\* the call was accepted (call setup ran to its end), no handler of the call
\* is suspended and no timer of it is pending that leads to cleanup
Quiescent(c) ==
  /\ setupPc[c] = "done"
  /\ cleanPc[c] \in {StNone, StDone}
  /\ gracePending[c] = {}
  /\ redirPc[c] \in {"idle", "done"}
  /\ termPc[c] # "wait"
  /\ wsState[c] \notin {"connecting", "closing"}

\* C6: after a leg-end event of an accepted call, once its timers have fired
\* and its requests have returned, the call has been removed from the
\* registry and its RTP port is back in the pool.
C6_RemovedAfterLegEnd ==
  \A c \in Ids :
    (kind[c] = "sip" /\ LegEndSeen(c) /\ Quiescent(c)) =>
      /\ CleanupCompleted(c)
      /\ setupPort[c] \notin usedPorts

\* the call's cleaned flag is set or its call-id is in the already-cleaned set
Cleaned(c) == c \in cleanedChannels \/ \E k \in Slots : obj[c][k].cleaned

\* every resource of the call is released
AllReleased(c) ==
  /\ wsState[c] \in {"none", "closed"}
  /\ c \notin rtpReceivers
  /\ c \notin rtpSenders
  /\ setupPort[c] \notin usedPorts
  /\ bridgeAlive[c] # "up"
  /\ extAlive[c] # "up"
  /\ ~callTimerPending[c]
  /\ gracePending[c] = {}

\* C7: no leaks on teardown.  Whenever a call's cleaned flag is set or its
\* call-id is in the already-cleaned set, its WebSocket is closed, its RTP
\* sockets are closed, its port is back in the pool, its bridge is destroyed,
\* its external leg is hung up and its timers are cleared.
C7_NoLeaksWhenCleaned == \A c \in Ids : Cleaned(c) => AllReleased(c)

\* C8: once the cleanup of a call has completed, its call-id is absent from
\* the registry in every later state.
C8_AbsentAfterCleanup == \A c \in Ids : CleanupCompleted(c) => sipMap[c] = NoSlot

\* a StasisEnd or ChannelDestroyed event of a leg of c is handled in this step
LegEndEvent(c, leg) == StasisEnd(c, leg) \/ ChannelDestroyed(c, leg)

\* C9: late-event suppression.  A StasisEnd or ChannelDestroyed event for an
\* already-cleaned call-id, or for an external leg marked ignore, sets no
\* end-flag, arms no grace timer, starts no cleanup and leaves the registry,
\* the external-to-call map and the port pool unchanged.
C9_LateEventDropped ==
  [][ \A c \in Ids, leg \in {"sip", "ext"} :
        ( /\ LegEndEvent(c, leg)
          /\ c \in cleanedChannels \/ (leg = "ext" /\ c \in ignoreExtEvents) )
        => /\ UNCHANGED << sipMap, obj, gracePending, extMapExt, extMapSip,
                           usedPorts, cleanedChannels, cleanupPromises, cleanPc >>
           /\ eff'[c].invoked = eff[c].invoked ]_vars

\* C9, witness: an event of a leg of an accepted call was dropped, and the
\* call is already cleaned or its external leg is marked ignore
C9_Witness ==
  \E c \in Ids :
    /\ kind[c] = "sip"
    /\ eff[c].dropped
    /\ c \in cleanedChannels \/ c \in ignoreExtEvents

\* C10: a leg-end event for a channel that owns no Call record (an unknown
\* channel, or a Local/ pseudo-leg skipped at call start) creates no
\* registry entry, arms no grace timer and triggers no cleanup.
C10_UnownedLegEndDropped ==
  \A c \in Ids :
    kind[c] \in {"local", "unknown"} =>
      /\ sipMap[c] = NoSlot
      /\ gracePending[c] = {}
      /\ eff[c].invoked = 0

\* call setup of c failed: the catch block of the StasisStart handler ran
SetupFailed(c) == setupPc[c] = "failed"

\* C11: when call setup fails at any step, the call is cleaned with reason
\* stasisstart-error and every resource acquired up to the failing step is
\* released: once that cleanup has returned the created bridge is destroyed,
\* the acquired RTP port is back in the pool, the receiver is closed and the
\* call is not in the registry.
C11_SetupFailureReleasesAll ==
  \A c \in Ids :
    (SetupFailed(c) /\ CleanupCompleted(c)) =>
      /\ bridgeAlive[c] # "up"
      /\ setupPort[c] \notin usedPorts
      /\ c \notin rtpReceivers
      /\ sipMap[c] = NoSlot

\* terminateAfterPlayback is called for c in this step
TerminateRequested(c) == termPc[c] = "idle" /\ termPc'[c] # "idle"

\* C12: if redirecting is set for a call when a terminate request arrives,
\* the terminate is skipped: terminate-after-playback is not set and no
\* cleanup is started by that request.
C12_TerminateSkippedWhenRedirecting ==
  [][ \A c \in Ids :
        (TerminateRequested(c) /\ Redirected(c)) =>
          /\ termPc'[c] = "skipped"
          /\ \A k \in Slots : obj'[c][k].tap = obj[c][k].tap
          /\ eff'[c].invoked = eff[c].invoked
          /\ cleanPc'[c] = cleanPc[c] ]_vars

\* C12, witness: a terminate request was skipped for a redirected call that
\* is not cleaned
C12_Witness ==
  \E c \in Ids :
    /\ termPc[c] = "skipped"
    /\ Redirected(c)
    /\ ~Cleaned(c)

\* terminate-after-playback is set in a Call record of c
TerminateArmed(c) == \E k \in Slots : obj[c][k].tap

\* C13: if terminate-after-playback is set for a call, every subsequent
\* redirect attempt for that call is ignored: redirecting is not set, no
\* teardown for handoff is performed and continueInDialplan is not called.
C13_NoRedirectAfterTerminate ==
  [][ \A c \in Ids :
        (TerminateArmed(c) /\ ~Redirected(c)) =>
          /\ \A k \in Slots : ~obj'[c][k].redirecting
          /\ eff'[c].rExtHangup = eff[c].rExtHangup
          /\ eff'[c].rBridgeDestroy = eff[c].rBridgeDestroy
          /\ eff'[c].rRelease = eff[c].rRelease
          /\ eff'[c].rContinue = eff[c].rContinue ]_vars

\* redirectToQueue is called for c in this step
RedirectRequested(c) == eff'[c].rCalls # eff[c].rCalls

\* C14: handoff happens at most once per call.  However many assistant
\* transcripts match a redirect phrase, the handoff teardown and the
\* continue-in-dialplan sequence are performed at most once; a
\* redirectToQueue call made when REDIRECTION_QUEUE is unset, when the call
\* is not in the registry, or when redirecting is already set changes no
\* state and issues no PBX request.
C14_HandoffAtMostOnce ==
  [][ \A c \in Ids :
        /\ eff'[c].rRuns <= 1
        /\ eff'[c].rExtHangup <= 1
        /\ eff'[c].rBridgeDestroy <= 1
        /\ eff'[c].rRelease <= 1
        /\ ( /\ RedirectRequested(c)
             /\ \/ ~cfg.queue
                \/ sipMap[c] = NoSlot
                \/ obj[c][sipMap[c]].redirecting )
           => /\ UNCHANGED << kind, cfg, failing, snd, extStart, ai, aiEff, sipMap, obj, extMapExt, extMapSip,
                              ignoreExtEvents, cleanedChannels, cleanupPromises,
                              rtpReceivers, rtpSenders, usedPorts, setupPc,
                              setupPort, cleanPc, cleanRef, redirPc, redirRef,
                              redirIdx, termPc, aiRef, wsState, senderQ,
                              gracePending, callTimerPending, bridgeAlive,
                              extAlive, sigint >>
              /\ eff'[c] = [ eff[c] EXCEPT !.rCalls = eff'[c].rCalls ] ]_vars

\* C14, witness: redirectToQueue was called twice for a call and the handoff
\* was performed once, up to a successful continueInDialplan
C14_Witness ==
  \E c \in Ids :
    /\ eff[c].rCalls = 2
    /\ eff[c].rRuns = 1
    /\ eff[c].rContinued

\* C15: handoff and termination are triggered only by assistant
\* transcripts.  A user transcript
\* (conversation.item.input_audio_transcription.completed) containing a
\* redirect or terminate phrase never sets a terminate flag, never arms the
\* watchdog or starts the finalizer, and never invokes onRedirectRequest or
\* onTerminateRequest.
C15_OnlyAssistantTriggers ==
  [][ \A c \in Ids, term \in BOOLEAN, redir \in BOOLEAN :
        UserTranscript(c, term, redir) =>
          /\ ai'[c] = ai[c]
          /\ aiEff'[c].redirHooks = aiEff[c].redirHooks
          /\ aiEff'[c].termHooks = aiEff[c].termHooks
          /\ \A k \in Slots : obj'[c][k].tap = obj[c][k].tap ]_vars

\* C15, witness: a user transcript holding a phrase was handled and no
\* hook was called, no terminate requested
C15_Witness ==
  \E c \in Ids :
    /\ << "USER", TRUE >> \in aiEff[c].transcript
    /\ aiEff[c].redirHooks = 0
    /\ aiEff[c].termHooks = 0
    /\ ~ai[c].terminateRequested
    /\ ~ai[c].terminationWatchdogStarted

\* a scheduled reconnect is made in this step
Reconnects(c) == ai[c].retryTimer /\ ~ai'[c].retryTimer

\* C16: connection failures of the session are retried at most maxRetries
\* times per call, and only while the call is registered: no reconnect is
\* made once the call is cleaned, also not one that was scheduled before the
\* cleanup ran.
C16_NoReconnectAfterCleanup ==
  [][ \A c \in Ids :
        /\ ai'[c].retryCount <= maxRetries
        /\ Reconnects(c) => ~Cleaned(c) ]_vars

\* C17: for every response of a call (not only the first one), the first
\* non-empty, non-silent audio delta of the response is pushed to the
\* Sender preceded by the silence prefix, and no later delta of the same
\* response is prefixed; after a barge-in the next response's first delta is
\* again prefixed.
C17_PrefixPerResponse ==
  [][ \A c \in Ids, n \in 1 .. MaxDelta :
        ResponseAudioDelta(c, n, TRUE) =>
          (aiEff'[c].pushed = "prefixed" <=> aiEff[c].respDeltas = 0) ]_vars

\* a step of the StasisStart handler that runs for a duplicated event
DupSetupStep(c) == eff[c].dupStart /\ setupPc'[c] # setupPc[c]

\* C18: duplicate delivery of a PBX-CTL event is tolerated.  In particular
\* the handler of a duplicated StasisStart for a live SIP leg acquires no
\* second RTP port, does not replace the Call record and does not start a
\* cleanup of the live call.
C18_DuplicateStartTolerated ==
  [][ \A c \in Ids :
        DupSetupStep(c) =>
          /\ usedPorts' = usedPorts
          /\ sipMap'[c] = sipMap[c]
          /\ eff'[c].invoked = eff[c].invoked ]_vars

\* the cleanup body of c finishes in this step, one of its steps having failed
CleanupCompletesAfterFailure(c) ==
  /\ cleanPc[c] # StDone
  /\ cleanPc'[c] = StDone
  /\ eff'[c].stepFailed

\* C19: no error escapes a cleanup.  When a step of the teardown has failed,
\* the steps after it are still carried out (bridge destroy, SIP hangup,
\* port release and mailer, each where the body's record asks for it), and
\* the body ends with the call removed from the registry
\* and its entry removed from the map of cleanups in flight.
C19_FailingStepTolerated ==
  [][ \A c \in Ids :
        CleanupCompletesAfterFailure(c) =>
          LET d == obj'[c][cleanRef'[c]] IN
          /\ sipMap'[c] = NoSlot
          /\ c \notin cleanupPromises'
          /\ d.bridge => eff'[c].bridgeDestroy >= 1
          /\ SipHangupGate(d) => eff'[c].sipHangup >= 1
          /\ d.rtpPort # NoPort => eff'[c].release >= 1
          /\ MailGate(d) => eff'[c].mail >= 1 ]_vars

\* a cleanup has finished although its external-leg hangup failed: the leg is
\* still up, the later requests were issued and the call is off the registry
C19_Witness ==
  /\ failing = "ext"
  /\ CleanupCompleted("c1")
  /\ eff["c1"].stepFailed
  /\ extAlive["c1"] = "up"
  /\ eff["c1"].bridgeDestroy >= 1
  /\ eff["c1"].mail >= 1
  /\ sipMap["c1"] = NoSlot

\* the SIGINT handler has exited the process
Exited == sigint.st = "exited"

C21_TerminateEventuallyCleans ==
  \A c \in Ids :
    ai[c].terminateRequested ~>
      (aiEff[c].termHooks >= 1 /\ (c \in cleanedChannels \/ Redirected(c)))

\* the watchdog has fired, the finalizer has called onTerminateRequest, and
\* terminateAfterPlayback has started cleanup after waiting for the audio
C21_Witness ==
  /\ ai["c1"].terminationWatchdogStarted
  /\ ~ai["c1"].watchdogTimer
  /\ aiEff["c1"].termHooks >= 1
  /\ termPc["c1"] = "after"
  /\ "c1" \in cleanedChannels

\* C22: the RTP header sequence.  Every packet the sender emits has payload
\* type 0 and PAYLOAD bytes of payload; its sequence number is one greater
\* (mod 2^16) and its timestamp PAYLOAD greater (mod 2^32) than those of the
\* packet emitted before it, whatever pushes, stopPlayback calls and idle
\* ticks lie between the two; packets leave in the order they were formed.
C22_RtpHeaderSequence ==
  [][ snd'.last # snd.last =>
        /\ snd'.last.pt = 0
        /\ snd'.last.len = 160
        /\ snd.last # NoPacket =>
              /\ snd'.last.seq = (snd.last.seq + 1) % 65536
              /\ snd'.last.ts.lo = (snd.last.ts.lo + 160) % 65536
              /\ snd'.last.ts.hi =
                   (snd.last.ts.hi + (IF snd.last.ts.lo + 160 >= 65536 THEN 1 ELSE 0)) % 65536
              /\ snd'.last.serial > snd.last.serial ]_vars

\* packets were sent with an audioFinished and an idle tick between them;
\* the sequence number has wrapped from 65535 to 0 and the timestamp from
\* 2^32 - 160 to 0
C22_Witness ==
  /\ snd.last.seq = 1
  /\ snd.last.ts = [ hi |-> 0, lo |-> 160 ]
  /\ snd.last.serial = 3
  /\ snd.idle >= 1
  /\ snd.fin >= 1

\* C23: audioFinished once per drain edge.  audioFinished is emitted only by
\* a tick that finds buffer and queue empty after audio was pushed since
\* the last audioFinished (never for a sender that was never filled, never
\* again on the idle ticks that follow), and such a tick always emits it.
C23_AudioFinishedOncePerDrain ==
  [][ /\ snd'.fin # snd.fin =>
            /\ snd.filled /\ snd.buf = 0 /\ snd.queue = << >>
            /\ ~snd'.filled
            /\ snd'.fin = snd.fin + 1
      /\ (SenderTick /\ snd.filled /\ snd.buf = 0 /\ snd.queue = << >>) =>
            snd'.fin # snd.fin ]_vars

\* audioFinished was emitted once, idle ticks followed without another one
C23_Witness ==
  /\ snd.fin = 1
  /\ snd.idle >= 1
  /\ ~snd.filled
  /\ snd.last # NoPacket

\* C24: the handoff suppresses the cleanup's SIP hangup.  cleanupChannel
\* issues its SIP-leg hangup only when the call's redirecting flag is false
\* as the body reaches the step, also when the flag was set while the body
\* was suspended in an earlier step.
C24_HangupReadsFlagAtStep ==
  [][ \A c \in Ids :
        eff'[c].sipHangup # eff[c].sipHangup => ~Redirected(c) ]_vars

\* a redirect set the flag while the cleanup was suspended before its SIP
\* step; the cleanup has finished without hanging the SIP leg up
C24_Witness ==
  /\ eff["c1"].rLate
  /\ CleanupCompleted("c1")
  /\ obj["c1"][cleanRef["c1"]].channel
  /\ eff["c1"].sipHangup = 0

\* C25: leg-end events and the grace timer.  A leg-end event of a live call
\* sets the end-flag of its leg in the call's record; if both flags are then
\* set cleanup starts at once; otherwise the call is left with exactly one
\* pending grace timer, the one this event has armed, and cleanup does not
\* start in this step.
C25_LegEndArmsOneTimer ==
  [][ \A c \in Ids, leg \in {"sip", "ext"} :
        ( /\ StasisEnd(c, leg) \/ ChannelDestroyed(c, leg)
          /\ ~HandlerDrops(c, leg)
          /\ ~MarkDrops(c, leg) ) =>
            LET k == GetOrNew(sipMap, c)
                d == obj'[c][k]
            IN
            /\ IF leg = "ext" THEN d.extEnded ELSE d.sipEnded
            /\ IF d.sipEnded /\ d.extEnded
               THEN c \in cleanedChannels'
               ELSE /\ gracePending'[c] = {k}
                    /\ cleanedChannels' = cleanedChannels ]_vars

C27_ReceiverClosedBeforeRelease ==
  [][ \A c \in Ids :
        (eff'[c].release # eff[c].release \/ eff'[c].rRelease # eff[c].rRelease) =>
          c \notin rtpReceivers' ]_vars

\* C28: the pump keeps the order of the events.  The events of a call are
\* started in the order they were received, none is skipped or started
\* twice, and one run of the pump callback starts at most 5 of them, also
\* when a run waits in the finalizer while later ticks start further events.
C28_PumpKeepsOrder ==
  \A c \in Ids :
    /\ \A i \in 1 .. Len(ai[c].started) : ai[c].started[i] = i
    /\ Len(ai[c].started) + Len(ai[c].messageQueue) = ai[c].recv
    /\ ai[c].lastRun <= 5
    /\ ai[c].pumpCount <= 5

\* the run that started events 1 and 2 waits in the finalizer for event 2;
\* a later tick has started the four events behind it
C28_Witness ==
  /\ ai["c1"].pumpSusp
  /\ ai["c1"].pumpAt = 2
  /\ Len(ai["c1"].started) = 6
  /\ ai["c1"].lastRun = 4

\* C29: the external-leg enter handler is bounded and harmless.  It waits at
\* most 10 times for the mapping (the first lookup comes before the first
\* wait).  It calls addExtToBridge exactly when a lookup found the mapping,
\* at most once, and the leg counts as bridged only after that call went
\* well on the call's live bridge.  When it gives up, and when the add
\* fails, the step changes nothing but the handler's own position: no
\* cleanup is started.
C29_ExtStartBoundedNoCleanup ==
  [][ \A c \in Ids :
        /\ extStart'[c].attempts <= 10
        /\ extStart'[c].adds <= 1
        /\ extStart'[c].adds # extStart[c].adds =>
              c \in extMapExt /\ extStart[c].pc \in {"none", "poll"}
        /\ (extStart[c].pc \in {"none", "poll"} /\ extStart'[c] # extStart[c]
              /\ c \in extMapExt) => extStart'[c].pc = "add"
        /\ (extStart'[c].bridged /\ ~extStart[c].bridged) =>
              extStart[c].pc = "add" /\ bridgeAlive[c] = "up"
        /\ (extStart'[c].gaveUp /\ ~extStart[c].gaveUp) =>
              /\ extStart'[c].attempts = 10 /\ extStart'[c].adds = 0
              /\ c \notin extMapExt
              /\ ExtFrame
        /\ (extStart'[c].failed /\ ~extStart[c].failed) =>
              /\ ExtFrame
              /\ eff'[c].invoked = eff[c].invoked
    ]_vars

\* a handler that found the mapping at its tenth poll and whose add failed
\* while the call stays registered and no cleanup was ever invoked
C29_Witness ==
  /\ extStart["c1"].pc = "done"
  /\ extStart["c1"].attempts = 10
  /\ extStart["c1"].failed
  /\ eff["c1"].invoked = 0
  /\ sipMap["c1"] # NoSlot

\* C30: the duration timer never outlives the call.  A timer is armed only
\* under a duration limit and only for a call that has none yet and has not
\* been hung up by one; the timer hangs the SIP leg up at most once; a call
\* that has been cleaned has no pending timer, and no duration-limit hangup
\* is issued for it.
C30_NoDurationHangupAfterCleanup ==
  [][ \A c \in Ids :
        /\ (callTimerPending'[c] /\ ~callTimerPending[c]) =>
              cfg.durLimit /\ eff[c].tSipHangup = 0
        /\ eff'[c].tSipHangup # eff[c].tSipHangup =>
              eff'[c].tSipHangup <= 1 /\ c \notin cleanedChannels
        /\ c \in cleanedChannels' => ~callTimerPending'[c]
    ]_vars

\* C31: the mail step of cleanup.  In the step in which a cleanup body
\* reaches its mail step the mailer is invoked if and only if EMAIL_ENABLED
\* is set and no record of the call carries the redirecting flag; the mailer
\* is invoked nowhere else.  It gets the reason of the invocation that runs
\* the body, the port of the body's record is back in the pool, and the call
\* is still registered.
C31_MailerGateReasonOrder ==
  [][ \A c \in Ids :
        LET reached == cleanPc[c] < StMail /\ cleanPc'[c] >= StMail
            mailed  == eff'[c].mail # eff[c].mail
        IN  /\ mailed => reached
            /\ reached => (mailed <=> (cfg.email /\ ~Redirected(c)))
            /\ mailed =>
                  /\ eff'[c].reason # "none"
                  /\ eff'[c].mailReason = eff'[c].reason
                  /\ obj'[c][cleanRef'[c]].rtpPort \notin usedPorts'
                  /\ sipMap'[c] # NoSlot
    ]_vars

\* the mailer has run for a call whose cleanup was started by the grace
\* timer and invoked again since; the port is back, the call is not yet
\* removed
C31_Witness ==
  /\ eff["c1"].mail = 1
  /\ eff["c1"].mailReason = "grace-timeout"
  /\ eff["c1"].invoked = 2
  /\ eff["c1"].release = 1
  /\ cleanPc["c1"] = StMail
  /\ sipMap["c1"] # NoSlot

C33_NoStalePromise ==
  \A c \in Ids : c \in cleanupPromises => cleanPc[c] \in StWs .. StMail

\* C34: the terminate hook is called at most once per session.  Whatever
\* response.audio.done, error events, socket errors, socket closes, watchdog
\* expiries and terminate phrases a session sees, onTerminateRequest is
\* invoked at most once, and the finalizer is never waiting again after it
\* has called the hook.
C34_TerminateHookAtMostOnce ==
  \A c \in Ids :
    /\ aiEff[c].termHooks <= 1
    /\ aiEff[c].termHooks = 1 => ai[c].terminationInFlight /\ ai[c].finalPc = "done"

\* the hook was called once, a terminate phrase was matched again after it
\* and the socket has closed since
C34_Witness ==
  /\ aiEff["c1"].termHooks = 1
  /\ ai["c1"].terminateRequested
  /\ ai["c1"].finalPc = "done"
  /\ wsState["c1"] \in {"closing", "closed", "errored"}

\* C35: the waits for playback to drain are per call.  The wait of
\* waitForBufferEmpty of a call ends as finished only in a step in which the
\* call's own sender emits audioFinished, and whenever the own sender emits
\* it while the wait is on, the wait ends in that step, whatever other calls
\* have emitted before.  The same holds for the wait of
\* terminateAfterPlayback, which ends on the own audioFinished or on the
\* fallback timer only.
C35_DrainWaitsPerCall ==
  [][ \A c \in Ids :
        /\ (ai[c].waitEnd = "none" /\ ai'[c].waitEnd = "finished") => EmitAudioFinished(c)
        /\ (EmitAudioFinished(c) /\ ai[c].finalPc = "waiting" /\ ai[c].waitEnd = "none")
              => ai'[c].waitEnd = "finished"
        /\ (termPc[c] = "wait" /\ termPc'[c] # "wait")
              => (EmitAudioFinished(c) \/ TerminateFallback(c))
        /\ (EmitAudioFinished(c) /\ termPc[c] = "wait") => termPc'[c] = "after"
    ]_vars

\* C36: no handoff once cleanup has begun.  A redirectToQueue that is invoked
\* for a call whose cleanup has started (the call-id is in the cleaned set
\* or its record carries the cleaned flag) sets no redirecting flag and
\* issues no request: no external-leg hangup, no bridge destroy, no
\* continue-in-dialplan.
C36_NoHandoffAfterCleanupBegan ==
  [][ \A c \in Ids :
        (eff'[c].rCalls # eff[c].rCalls
           /\ (c \in cleanedChannels \/ \E k \in Slots : obj[c][k].cleaned)) =>
          /\ \A k \in Slots : obj'[c][k].redirecting = obj[c][k].redirecting
          /\ eff'[c].rRuns = eff[c].rRuns
          /\ eff'[c].rExtHangup = eff[c].rExtHangup
          /\ eff'[c].rBridgeDestroy = eff[c].rBridgeDestroy
          /\ eff'[c].rContinue = eff[c].rContinue
          /\ redirPc'[c] = redirPc[c]
    ]_vars

\* C37: the message pump stops with the call.  Once the cleanup of a call
\* has completed, the pump of its session handles no further event: no
\* audio delta, no barge-in, no transcript that calls the redirect or the
\* terminate hook.
C37_PumpStopsAfterCleanup ==
  [][ \A c \in Ids :
        (cleanPc[c] = StDone /\ c \in cleanedChannels) =>
          ~(AudioDelta(c) \/ StopPlayback(c) \/ OnRedirectRequest(c) \/ OnTerminateRequest(c))
    ]_vars

\* C38: a port is released at most once.  Over the life of a call
\* releaseRtpPort is called at most once for the call's port, by the handoff
\* or by the cleanup, not by both.
C38_PortReleasedAtMostOnce ==
  \A c \in Ids : eff[c].release + eff[c].rRelease <= 1

\* C39: a recorded leg-end is not lost.  While the process runs and until
\* the cleanup of a call starts, an end-flag that was set on a record of the
\* call is set on the record the registry holds for it, a pending grace
\* timer is the one whose handle that record holds, and at most one grace
\* timer is pending for the call.
C39_LegEndKept ==
  \A c \in Ids :
    (Alive /\ c \notin cleanedChannels) =>
      /\ (\E k \in Slots : obj[c][k].sipEnded) =>
            sipMap[c] # NoSlot /\ obj[c][sipMap[c]].sipEnded
      /\ (\E k \in Slots : obj[c][k].extEnded) =>
            sipMap[c] # NoSlot /\ obj[c][sipMap[c]].extEnded
      /\ gracePending[c] # {} =>
            sipMap[c] # NoSlot /\ obj[c][sipMap[c]].timer /\ gracePending[c] = {sipMap[c]}
      /\ Cardinality(gracePending[c]) <= 1

====
